---- MODULE Spec2Model ----
(***************************************************************************)
(* Model of rama's graceful shutdown primitive (src/transport/graceful.rs), *)
(* of the HTTP proxy connector (src/proxy/http/client/layer.rs) and of the *)
(* TLS connector (rama-tls/src/boring/client/connector.rs), of the Context  *)
(* the pipeline threads through them and of the Host extractor             *)
(* (rama-http/src/service/web/endpoint/extract/host.rs).                   *)
(***************************************************************************)
EXTENDS Integers, FiniteSets, Sequences, TLC

\* ------------------------------------------------------------------ bounds
\* Number of Token values (token(), child_token(), clone, pending()) ever made.
MaxTokens == 3
\* Largest duration (in ticks) handed to shutdown_until.
MaxDuration == 1
\* The number of operations called on an AutoTlsStream.
MaxOps == 4
\* The number of values inserted into one Context.
MaxInserts == 3

\* ------------------------------------------------------------------ state
VARIABLES
    signal,        \* the signal future handed to GracefulService::new has resolved
    watcher,       \* position of the task spawned in new(): "awaiting" | "done"
    tokSt,         \* Token value i: "free" (not made yet) | "live" | "dropped"
    tokState,      \* Token.state of value i: "None" | "Some"
    tokNode,       \* TokenState.shutdown of value i: the cancellation node it handles
    tokSeen,       \* the holder of Token i has seen token.shutdown() resolve
    nparent,       \* cancellation tree: parent of a node, or NoNode
    ncancelled,    \* cancellation tree: is_cancelled of a node
    nhandles,      \* cancellation tree: number of CancellationToken handles of a node
    senders,       \* number of live Sender<()> handles of the completion channel
    svcTx,         \* GracefulService.shutdown_complete_tx is still held
    svcPc,         \* where the owner of the GracefulService is
    ret,           \* what shutdown / shutdown_until returned: "none" | "unit" | "Ok" | "Err"
    reqDone,       \* the owner of the service has seen a shutdown_req() call resolve
    duration,      \* the duration handed to shutdown_until, NoTime before the call
    timer,         \* ticks left of tokio::time::timeout, NoTime while not armed
    sinceCancel,   \* ticks since the root token was cancelled (counted up to MaxDuration)
    heldAt,        \* the k > 0 for which a Token with state was alive k ticks after the
                   \* cancellation
    tokOrigin,     \* how Token value i came to be: from "service" (token()) or from "pending"
    ncreator       \* the node whose child_token() made a node, NoNode for the root
                   \* and for a node not made yet

\* HttpProxyConnectorService::serve (src/proxy/http/client/layer.rs)
VARIABLES
    servePc,          \* where serve is: "off" | "start" | "inner" | "inner_returned"
                      \*   | "handshake" | "handshake_returned" | "done"
    provider,         \* self.provider: <<>> for FromContext, <<info>> for a static HttpProxyInfo
    ctx,              \* the Context, wherever it currently is
    req,              \* the Request
    info,             \* the Option<HttpProxyInfo> the provider gave
    innerOut,         \* what self.inner.serve returned: "none" | "Ok" | "Err"
    established_conn, \* the EstablishedClientConnection of the inner connector, <<>> if none
    connector,        \* the HttpProxyConnector that was built, <<>> if none
    hsOut,            \* what connector.handshake returned: "none" | "Ok" | "Err"
    served,           \* what serve returned: "none" | "Ok" | "Err"
    response,         \* the EstablishedClientConnection serve returned, <<>> if none
    error             \* the error serve returned: its context notes, outermost first

\* TlsConnector::serve and TlsConnector::handshake
\* (rama-tls/src/boring/client/connector.rs)
VARIABLES
    tlsPc,               \* where serve is: "off" | "start" | "connected" | "handshake"
                         \*   | "handshake_returned" | "done"
    kind,                \* self.kind: ConnectorKindAuto | ConnectorKindSecure
                         \*   | ConnectorKindTunnel { host }
    self_connector_data, \* self.connector_data: Option<TlsConnectorData>
    new_http_auto,       \* what TlsConnectorData::new_http_auto() gives: <<>> for Err
    tls_ctx,             \* the Context, wherever it currently is
    tls_req,             \* the Request: what try_ref_into_transport_ctx gives for it
    connOut,             \* what self.inner.connect returned: "none" | "Ok" | "Err"
    tls_conn,            \* the connection of the inner connector, <<>> if none
    hsCalled,            \* self.handshake was called
    hsData,              \* which TlsConnectorData handshake resolved, "none" before
    server_host,         \* the host handed to handshake, <<>> before
    server_name,         \* the name handed to tokio_boring::connect, <<>> if not called
    boringOut,           \* what tokio_boring::connect gave, <<>> before
    tlsServed,           \* what serve returned: "none" | "Ok" | "Err"
    tlsResponse,         \* the EstablishedClientConnection serve returned, <<>> if none
    tlsError             \* the error serve returned: its notes, outermost first

\* AutoTlsStream (rama-tls/src/boring/client/connector.rs)
VARIABLES
    autoStream,          \* AutoTlsStream.inner: <<>> if there is none, else its variant
    calls,               \* the operations called on the AutoTlsStream, in order
    secureOps,           \* the operations that reached the SslStream of Secure
    plainOps             \* the operations that reached the stream of Plain

\* Context (the type-keyed value bag of a request)
VARIABLES
    extensions,          \* the entries of the Context: pairs <<type, value>>
    inserted             \* the inserts made so far, in order: pairs <<type, value>>

\* Host extractor (rama-http/src/service/web/endpoint/extract/host.rs)
VARIABLES
    hostPc,              \* "off" | "call" | "done"
    host_ctx,            \* the Context handed to from_request_parts
    host_parts,          \* the request Parts handed to from_request_parts
    hostResult           \* what from_request_parts returned

gvars == <<signal, watcher, tokSt, tokState, tokNode, tokSeen, nparent, ncancelled,
           nhandles, senders, svcTx, svcPc, ret, reqDone, duration, timer,
           sinceCancel, heldAt, tokOrigin, ncreator>>

pvars == <<servePc, provider, ctx, req, info, innerOut, established_conn, connector,
           hsOut, served, response, error>>

tvars == <<tlsPc, kind, self_connector_data, new_http_auto, tls_ctx, tls_req, connOut,
           tls_conn, hsCalled, hsData, server_host, server_name, boringOut, tlsServed,
           tlsResponse, tlsError>>

svars == <<autoStream, calls, secureOps, plainOps>>

cvars == <<extensions, inserted>>

hvars == <<hostPc, host_ctx, host_parts, hostResult>>

vars == <<gvars, pvars, tvars, svars, cvars, hvars>>

\* What an operation of one component leaves alone: the other components.
nonGraceful == <<pvars, tvars, svars, cvars, hvars>>
nonProxy == <<gvars, tvars, svars, cvars, hvars>>
nonTls == <<gvars, pvars, svars, cvars, hvars>>
nonStream == <<gvars, pvars, tvars, cvars, hvars>>
nonContext == <<gvars, pvars, tvars, svars, hvars>>
nonHost == <<gvars, pvars, tvars, svars, cvars>>

Tokens == 1..MaxTokens
\* Node 0 is GracefulService.shutdown; node i is the one made for Token value i.
Root == 0
Nodes == 0..MaxTokens
NoNode == -1
NoTime == -1

\* ---------------------------------------------------------------- Context
\* The Context holds at most one value per type: an Option per type used here.
EmptyContext == [HttpProxyInfo |-> <<>>, ProxySocketAddr |-> <<>>, RequestContext |-> <<>>]

\* ------------------------------------------- tokio_util::sync::CancellationToken
RECURSIVE HasAncestor(_, _)
HasAncestor(c, a) ==
    /\ nparent[c] # NoNode
    /\ (nparent[c] = a \/ HasAncestor(nparent[c], a))

\* A cancel() that does not reach the children.
CancelFlags_NodeOnly(n) == [ncancelled EXCEPT ![n] = TRUE]

\* CancellationToken::cancel on node n: n and its whole subtree become cancelled,
\* the subtree is detached.
CancelFlags(n) ==
    [m \in Nodes |-> IF m = n \/ HasAncestor(m, n) THEN TRUE ELSE ncancelled[m]]

CancelParents(n) ==
    [m \in Nodes |-> IF HasAncestor(m, n) THEN NoNode ELSE nparent[m]]

\* Dropping one handle of node n: the last handle removes n from the tree and
\* hands its children to its parent.
DropHandleParents(n) ==
    IF nhandles[n] > 1
    THEN nparent
    ELSE [m \in Nodes |-> IF m = n THEN NoNode
                          ELSE IF nparent[m] = n THEN nparent[n]
                          ELSE nparent[m]]

DropHandleCounts(n) == [nhandles EXCEPT ![n] = nhandles[n] - 1]

\* ------------------------------------------------------------------ helpers
FreeTokens == {i \in Tokens : tokSt[i] = "free"}
NextFree == CHOOSE i \in FreeTokens : \A j \in FreeTokens : i <= j
LiveTokens == {i \in Tokens : tokSt[i] = "live"}
LiveGraceful == {i \in LiveTokens : tokState[i] = "Some"}
ServiceOwned == svcPc \in {"idle", "shutdown_req"}

\* A receiver that is ready as soon as the service's own sender is gone.
ChannelClosed_OwnSenderOnly == ~svcTx

\* recv() on a channel nobody sends on: ready (None) once every Sender is dropped.
ChannelClosed == senders = 0

\* A shutdown future that does not look at the token's state being None.
TokenShutdownReady_IgnoresState(i) == ncancelled[tokNode[i]]

\* Token::shutdown: the future handed out is ready iff the token has a state
\* whose cancellation token is cancelled; ShutdownFuture::pending() never is.
TokenShutdownReady(i) ==
    IF tokState[i] = "Some" THEN ncancelled[tokNode[i]] ELSE FALSE

\* CancellationToken::child_token of node p, made as node c.
ChildCancelled(p) == ncancelled[p]

ChildParent(p) == IF ncancelled[p] THEN NoNode ELSE p

\* ------------------------------------------------------------------ Init
GracefulInit ==
    /\ signal = FALSE
    /\ watcher = "awaiting"
    /\ tokSt = [i \in Tokens |-> "free"]
    /\ tokState = [i \in Tokens |-> "None"]
    /\ tokNode = [i \in Tokens |-> Root]
    /\ tokSeen = [i \in Tokens |-> FALSE]
    /\ nparent = [n \in Nodes |-> NoNode]
    /\ ncancelled = [n \in Nodes |-> FALSE]
    /\ nhandles = [n \in Nodes |-> IF n = Root THEN 2 ELSE 0]
    /\ senders = 1
    /\ svcTx = TRUE
    /\ svcPc = "idle"
    /\ ret = "none"
    /\ reqDone = FALSE
    /\ duration = NoTime
    /\ timer = NoTime
    /\ sinceCancel = 0
    /\ heldAt = {}
    /\ tokOrigin = [i \in Tokens |-> "none"]
    /\ ncreator = [n \in Nodes |-> NoNode]

\* ------------------------------------------------------ the signal watcher
\* The environment: the signal future becomes ready.
SignalResolves ==
    /\ ~signal
    /\ signal' = TRUE
    /\ UNCHANGED <<watcher, tokSt, tokState, tokNode, tokSeen, nparent, ncancelled,
                   nhandles, senders, svcTx, svcPc, ret, reqDone, duration, timer,
                   sinceCancel, heldAt, tokOrigin,
                   ncreator>>
    /\ UNCHANGED nonGraceful

\* The spawned task: `signal.await; token.cancel();`, then its clone of the
\* root token is dropped.
WatcherCancel ==
    /\ watcher = "awaiting"
    /\ signal
    /\ watcher' = "done"
    /\ ncancelled' = CancelFlags(Root)
    /\ nparent' = CancelParents(Root)
    /\ nhandles' = DropHandleCounts(Root)
    /\ UNCHANGED <<signal, tokSt, tokState, tokNode, tokSeen, senders, svcTx, svcPc,
                   ret, reqDone, duration, timer, sinceCancel, heldAt, tokOrigin,
                   ncreator>>
    /\ UNCHANGED nonGraceful

\* ------------------------------------------------------------------ Token
\* token() handing out CancellationToken::new() in place of a child token.
GracefulService_token_FreshToken ==
    /\ ServiceOwned
    /\ FreeTokens # {}
    /\ LET i == NextFree IN
        /\ tokSt' = [tokSt EXCEPT ![i] = "live"]
        /\ tokState' = [tokState EXCEPT ![i] = "Some"]
        /\ tokNode' = [tokNode EXCEPT ![i] = i]
        /\ nparent' = [nparent EXCEPT ![i] = NoNode]
        /\ ncancelled' = [ncancelled EXCEPT ![i] = FALSE]
        /\ nhandles' = [nhandles EXCEPT ![i] = 1]
        /\ senders' = senders + 1
        /\ tokOrigin' = [tokOrigin EXCEPT ![i] = "service"]
    /\ UNCHANGED <<signal, watcher, tokSeen, svcTx, svcPc, ret, reqDone, duration,
                   timer, sinceCancel, heldAt, ncreator>>
    /\ UNCHANGED nonGraceful

\* GracefulService::token: Token::new(self.shutdown.child_token(), tx.clone()).
GracefulService_token ==
    /\ ServiceOwned
    /\ FreeTokens # {}
    /\ LET i == NextFree IN
        /\ tokSt' = [tokSt EXCEPT ![i] = "live"]
        /\ tokState' = [tokState EXCEPT ![i] = "Some"]
        /\ tokNode' = [tokNode EXCEPT ![i] = i]
        /\ nparent' = [nparent EXCEPT ![i] = ChildParent(Root)]
        /\ ncancelled' = [ncancelled EXCEPT ![i] = ChildCancelled(Root)]
        /\ nhandles' = [nhandles EXCEPT ![i] = 1]
        /\ senders' = senders + 1
        /\ tokOrigin' = [tokOrigin EXCEPT ![i] = "service"]
        /\ ncreator' = [ncreator EXCEPT ![i] = Root]
    /\ UNCHANGED <<signal, watcher, tokSeen, svcTx, svcPc, ret, reqDone, duration,
                   timer, sinceCancel, heldAt>>
    /\ UNCHANGED nonGraceful

\* Token::pending: a token without state.
Token_pending ==
    /\ FreeTokens # {}
    /\ LET i == NextFree IN
        /\ tokSt' = [tokSt EXCEPT ![i] = "live"]
        /\ tokState' = [tokState EXCEPT ![i] = "None"]
        /\ tokOrigin' = [tokOrigin EXCEPT ![i] = "pending"]
    /\ UNCHANGED <<signal, watcher, tokNode, tokSeen, nparent, ncancelled, nhandles,
                   senders, svcTx, svcPc, ret, reqDone, duration, timer, sinceCancel,
                   heldAt, ncreator>>
    /\ UNCHANGED nonGraceful

\* Token::child_token: a child cancellation token and a clone of the sender
\* for a token with state, a clone of the token otherwise.
Token_child_token(i) ==
    /\ tokSt[i] = "live"
    /\ FreeTokens # {}
    /\ LET j == NextFree IN
        /\ tokSt' = [tokSt EXCEPT ![j] = "live"]
        /\ tokOrigin' = [tokOrigin EXCEPT ![j] = tokOrigin[i]]
        /\ IF tokState[i] = "Some"
           THEN /\ tokState' = [tokState EXCEPT ![j] = "Some"]
                /\ tokNode' = [tokNode EXCEPT ![j] = j]
                /\ nparent' = [nparent EXCEPT ![j] = ChildParent(tokNode[i])]
                /\ ncancelled' = [ncancelled EXCEPT ![j] = ChildCancelled(tokNode[i])]
                /\ nhandles' = [nhandles EXCEPT ![j] = 1]
                /\ senders' = senders + 1
                /\ ncreator' = [ncreator EXCEPT ![j] = tokNode[i]]
           ELSE /\ tokState' = [tokState EXCEPT ![j] = tokState[i]]
                /\ UNCHANGED <<tokNode, nparent, ncancelled, nhandles, senders, ncreator>>
    /\ UNCHANGED <<signal, watcher, tokSeen, svcTx, svcPc, ret, reqDone, duration,
                   timer, sinceCancel, heldAt>>
    /\ UNCHANGED nonGraceful

\* A Token clone that shares its Sender with the original in place of cloning it.
Token_clone_SharedSender(i) ==
    /\ tokSt[i] = "live"
    /\ FreeTokens # {}
    /\ LET j == NextFree IN
        /\ tokSt' = [tokSt EXCEPT ![j] = "live"]
        /\ tokState' = [tokState EXCEPT ![j] = tokState[i]]
        /\ tokOrigin' = [tokOrigin EXCEPT ![j] = tokOrigin[i]]
        /\ IF tokState[i] = "Some"
           THEN /\ tokNode' = [tokNode EXCEPT ![j] = tokNode[i]]
                /\ nhandles' = [nhandles EXCEPT ![tokNode[i]] = nhandles[tokNode[i]] + 1]
                /\ UNCHANGED senders
           ELSE UNCHANGED <<tokNode, nhandles, senders>>
    /\ UNCHANGED <<signal, watcher, tokSeen, nparent, ncancelled, svcTx, svcPc, ret,
                   reqDone, duration, timer, sinceCancel, heldAt, ncreator>>
    /\ UNCHANGED nonGraceful

\* #[derive(Clone)] for Token: the state is cloned, that is another handle of
\* the same cancellation node and another Sender.
Token_clone(i) ==
    /\ tokSt[i] = "live"
    /\ FreeTokens # {}
    /\ LET j == NextFree IN
        /\ tokSt' = [tokSt EXCEPT ![j] = "live"]
        /\ tokState' = [tokState EXCEPT ![j] = tokState[i]]
        /\ tokOrigin' = [tokOrigin EXCEPT ![j] = tokOrigin[i]]
        /\ IF tokState[i] = "Some"
           THEN /\ tokNode' = [tokNode EXCEPT ![j] = tokNode[i]]
                /\ nhandles' = [nhandles EXCEPT ![tokNode[i]] = nhandles[tokNode[i]] + 1]
                /\ senders' = senders + 1
           ELSE UNCHANGED <<tokNode, nhandles, senders>>
    /\ UNCHANGED <<signal, watcher, tokSeen, nparent, ncancelled, svcTx, svcPc, ret,
                   reqDone, duration, timer, sinceCancel, heldAt, ncreator>>
    /\ UNCHANGED nonGraceful

\* A Token goes out of scope: its TokenState (cancellation handle and Sender)
\* is dropped with it, nothing of the value is left.
Token_drop(i) ==
    /\ tokSt[i] = "live"
    /\ tokSt' = [tokSt EXCEPT ![i] = "dropped"]
    /\ tokState' = [tokState EXCEPT ![i] = "None"]
    /\ tokNode' = [tokNode EXCEPT ![i] = Root]
    /\ tokSeen' = [tokSeen EXCEPT ![i] = FALSE]
    /\ tokOrigin' = [tokOrigin EXCEPT ![i] = "none"]
    /\ IF tokState[i] = "Some"
       THEN /\ senders' = senders - 1
            /\ nparent' = DropHandleParents(tokNode[i])
            /\ nhandles' = DropHandleCounts(tokNode[i])
       ELSE UNCHANGED <<senders, nparent, nhandles>>
    /\ UNCHANGED <<signal, watcher, ncancelled, svcTx, svcPc, ret, reqDone, duration,
                   timer, sinceCancel, heldAt, ncreator>>
    /\ UNCHANGED nonGraceful

\* The holder of Token i awaits token.shutdown() and sees it resolve.
Token_shutdown(i) ==
    /\ tokSt[i] = "live"
    /\ ~tokSeen[i]
    /\ TokenShutdownReady(i)
    /\ tokSeen' = [tokSeen EXCEPT ![i] = TRUE]
    /\ UNCHANGED <<signal, watcher, tokSt, tokState, tokNode, nparent, ncancelled,
                   nhandles, senders, svcTx, svcPc, ret, reqDone, duration, timer,
                   sinceCancel, heldAt, tokOrigin,
                   ncreator>>
    /\ UNCHANGED nonGraceful

\* --------------------------------------------------------- GracefulService
\* shutdown_req(&self) is called and awaits self.shutdown.cancelled().
GracefulService_shutdown_req ==
    /\ svcPc = "idle"
    /\ svcPc' = "shutdown_req"
    /\ UNCHANGED <<signal, watcher, tokSt, tokState, tokNode, tokSeen, nparent,
                   ncancelled, nhandles, senders, svcTx, ret, reqDone, duration,
                   timer, sinceCancel, heldAt, tokOrigin,
                   ncreator>>
    /\ UNCHANGED nonGraceful

\* self.shutdown.cancelled() of the root token is ready.
RootCancelled == ncancelled[Root]

\* A shutdown_req that also waits for the Tokens to be dropped.
shutdown_req_resolve_WaitsForTokens ==
    /\ svcPc = "shutdown_req"
    /\ RootCancelled
    /\ senders = 1
    /\ svcPc' = "idle"
    /\ reqDone' = TRUE
    /\ UNCHANGED <<signal, watcher, tokSt, tokState, tokNode, tokSeen, nparent,
                   ncancelled, nhandles, senders, svcTx, ret, duration, timer,
                   sinceCancel, heldAt, tokOrigin, ncreator>>
    /\ UNCHANGED nonGraceful

\* shutdown_req resolves; the service is only borrowed and stays with its owner.
shutdown_req_resolve ==
    /\ svcPc = "shutdown_req"
    /\ RootCancelled
    /\ svcPc' = "idle"
    /\ reqDone' = TRUE
    /\ UNCHANGED <<signal, watcher, tokSt, tokState, tokNode, tokSeen, nparent,
                   ncancelled, nhandles, senders, svcTx, ret, duration, timer,
                   sinceCancel, heldAt, tokOrigin,
                   ncreator>>
    /\ UNCHANGED nonGraceful

\* shutdown(mut self) is called: the service is moved into the future, which
\* awaits self.shutdown.cancelled(); its owner has nothing left of it.
GracefulService_shutdown ==
    /\ svcPc = "idle"
    /\ svcPc' = "shutdown"
    /\ reqDone' = FALSE
    /\ UNCHANGED <<signal, watcher, tokSt, tokState, tokNode, tokSeen, nparent,
                   ncancelled, nhandles, senders, svcTx, ret, duration, timer,
                   sinceCancel, heldAt, tokOrigin, ncreator>>
    /\ UNCHANGED nonGraceful

\* shutdown without drop(self.shutdown_complete_tx).
shutdown_drop_tx_KeepsSender ==
    /\ svcPc = "shutdown"
    /\ RootCancelled
    /\ svcPc' = "shutdown_recv"
    /\ UNCHANGED <<signal, watcher, tokSt, tokState, tokNode, tokSeen, nparent,
                   ncancelled, nhandles, senders, svcTx, ret, reqDone, duration,
                   timer, sinceCancel, heldAt, tokOrigin, ncreator>>
    /\ UNCHANGED nonGraceful

\* shutdown: the cancellation is seen, drop(self.shutdown_complete_tx), then
\* the future waits in recv().
shutdown_drop_tx ==
    /\ svcPc = "shutdown"
    /\ RootCancelled
    /\ svcTx' = FALSE
    /\ senders' = senders - 1
    /\ svcPc' = "shutdown_recv"
    /\ UNCHANGED <<signal, watcher, tokSt, tokState, tokNode, tokSeen, nparent,
                   ncancelled, nhandles, ret, reqDone, duration, timer, sinceCancel,
                   heldAt, tokOrigin,
                   ncreator>>
    /\ UNCHANGED nonGraceful

\* shutdown: recv() yields, the future resolves and what is left of self (the
\* root token, the receiver) is dropped.
shutdown_recv ==
    /\ svcPc = "shutdown_recv"
    /\ ChannelClosed
    /\ svcPc' = "returned"
    /\ ret' = "unit"
    /\ nparent' = DropHandleParents(Root)
    /\ nhandles' = DropHandleCounts(Root)
    /\ UNCHANGED <<signal, watcher, tokSt, tokState, tokNode, tokSeen, ncancelled,
                   senders, svcTx, reqDone, duration, timer, sinceCancel, heldAt, tokOrigin,
                   ncreator>>
    /\ UNCHANGED nonGraceful

\* shutdown_until(mut self, duration) is called: the service is moved into the
\* future, which awaits the cancellation when it is polled.
GracefulService_shutdown_until(d) ==
    /\ svcPc = "idle"
    /\ svcPc' = "shutdown_until"
    /\ duration' = d
    /\ reqDone' = FALSE
    /\ UNCHANGED <<signal, watcher, tokSt, tokState, tokNode, tokSeen, nparent,
                   ncancelled, nhandles, senders, svcTx, ret, timer, sinceCancel,
                   heldAt, tokOrigin, ncreator>>
    /\ UNCHANGED nonGraceful

\* A shutdown_until that starts timeout(duration, recv()) at once, without
\* awaiting the cancellation of the root token.
shutdown_until_drop_tx_NoCancellationWait ==
    /\ svcPc = "shutdown_until"
    /\ svcTx' = FALSE
    /\ senders' = senders - 1
    /\ timer' = duration
    /\ svcPc' = "shutdown_until_recv"
    /\ UNCHANGED <<signal, watcher, tokSt, tokState, tokNode, tokSeen, nparent,
                   ncancelled, nhandles, ret, reqDone, duration, sinceCancel, heldAt,
                   tokOrigin, ncreator>>
    /\ UNCHANGED nonGraceful

\* shutdown_until: the cancellation is seen, drop(self.shutdown_complete_tx),
\* and tokio::time::timeout(duration, recv()) starts counting.
shutdown_until_drop_tx ==
    /\ svcPc = "shutdown_until"
    /\ RootCancelled
    /\ svcTx' = FALSE
    /\ senders' = senders - 1
    /\ timer' = duration
    /\ svcPc' = "shutdown_until_recv"
    /\ UNCHANGED <<signal, watcher, tokSt, tokState, tokNode, tokSeen, nparent,
                   ncancelled, nhandles, ret, reqDone, duration, sinceCancel, heldAt, tokOrigin,
                   ncreator>>
    /\ UNCHANGED nonGraceful

\* A timeout that looks at the deadline before it polls recv().
TimeoutResult_DeadlineFirst == IF timer = 0 THEN "Err" ELSE "Ok"

\* A result mapping that turns the elapsed deadline into Ok(()).
TimeoutResult_AlwaysOk == "Ok"

\* A timeout of zero that has elapsed before recv() is polled.
TimeoutResult_ZeroElapsesFirst ==
    IF duration = 0 THEN "Err" ELSE IF ChannelClosed THEN "Ok" ELSE "Err"

\* The outcome of a poll of timeout(duration, recv()) that is ready: the inner
\* future is polled first, the deadline only when recv() is still pending.
TimeoutResult == IF ChannelClosed THEN "Ok" ELSE "Err"

\* A shutdown_until that aborts the outstanding tasks when the deadline passed.
shutdown_until_recv_AbortsTasks ==
    /\ svcPc = "shutdown_until_recv"
    /\ (ChannelClosed \/ timer = 0)
    /\ svcPc' = "returned"
    /\ ret' = IF ChannelClosed THEN "Ok" ELSE "Err"
    /\ timer' = NoTime
    /\ tokSt' = [i \in Tokens |-> IF tokSt[i] = "live" THEN "dropped" ELSE tokSt[i]]
    /\ senders' = 0
    /\ nparent' = DropHandleParents(Root)
    /\ nhandles' = DropHandleCounts(Root)
    /\ UNCHANGED <<signal, watcher, tokState, tokNode, tokSeen, ncancelled, svcTx,
                   reqDone, duration, sinceCancel, heldAt, tokOrigin, ncreator>>
    /\ UNCHANGED nonGraceful

\* shutdown_until: the timeout future is ready (recv() yielded or the deadline
\* passed), the result is mapped and what is left of self is dropped.
shutdown_until_recv ==
    /\ svcPc = "shutdown_until_recv"
    /\ (ChannelClosed \/ timer = 0)
    /\ svcPc' = "returned"
    /\ ret' = TimeoutResult
    /\ timer' = NoTime
    /\ nparent' = DropHandleParents(Root)
    /\ nhandles' = DropHandleCounts(Root)
    /\ UNCHANGED <<signal, watcher, tokSt, tokState, tokNode, tokSeen, ncancelled,
                   senders, svcTx, reqDone, duration, sinceCancel, heldAt, tokOrigin,
                   ncreator>>
    /\ UNCHANGED nonGraceful

\* Time passes by one tick: the armed timer runs down, the time since the
\* cancellation is counted.
Tick ==
    /\ svcPc # "returned"
    /\ (timer > 0 \/ (RootCancelled /\ sinceCancel < MaxDuration))
    /\ timer' = IF timer > 0 THEN timer - 1 ELSE timer
    /\ sinceCancel' = IF RootCancelled /\ sinceCancel < MaxDuration
                      THEN sinceCancel + 1 ELSE sinceCancel
    /\ heldAt' = IF RootCancelled /\ sinceCancel < MaxDuration /\ LiveGraceful # {}
                 THEN heldAt \cup {sinceCancel + 1} ELSE heldAt
    /\ UNCHANGED <<signal, watcher, tokSt, tokState, tokNode, tokSeen, nparent,
                   ncancelled, nhandles, senders, svcTx, svcPc, ret, reqDone,
                   duration, tokOrigin,
                   ncreator>>
    /\ UNCHANGED nonGraceful

\* ------------------------------------------------------------ specification
\* No serve call is in flight.
ProxyOff ==
    /\ servePc = "off"
    /\ provider = <<>>
    /\ ctx = EmptyContext
    /\ req = [authority |-> <<>>]
    /\ info = <<>>
    /\ innerOut = "none"
    /\ established_conn = <<>>
    /\ connector = <<>>
    /\ hsOut = "none"
    /\ served = "none"
    /\ response = <<>>
    /\ error = <<>>

\* No TlsConnector::serve call is in flight.
TlsOff ==
    /\ tlsPc = "off"
    /\ kind = [name |-> "Auto", host |-> <<>>]
    /\ self_connector_data = <<>>
    /\ new_http_auto = <<>>
    /\ tls_ctx = [TlsConnectorData |-> <<>>, TlsTunnel |-> <<>>,
                  TransportContext |-> <<>>, NegotiatedTlsParameters |-> <<>>]
    /\ tls_req = [transport_ctx |-> <<>>]
    /\ connOut = "none"
    /\ tls_conn = <<>>
    /\ hsCalled = FALSE
    /\ hsData = "none"
    /\ server_host = <<>>
    /\ server_name = <<>>
    /\ boringOut = <<>>
    /\ tlsServed = "none"
    /\ tlsResponse = <<>>
    /\ tlsError = <<>>

\* There is no AutoTlsStream.
StreamOff ==
    /\ autoStream = <<>>
    /\ calls = <<>>
    /\ secureOps = <<>>
    /\ plainOps = <<>>

\* No Context is under observation.
ContextOff ==
    /\ extensions = {}
    /\ inserted = <<>>

\* No extraction is in flight.
HostOff ==
    /\ hostPc = "off"
    /\ host_ctx = <<>>
    /\ host_parts = <<>>
    /\ hostResult = <<>>

Init == GracefulInit /\ ProxyOff /\ TlsOff /\ StreamOff /\ ContextOff /\ HostOff

Next ==
    \/ SignalResolves
    \/ WatcherCancel
    \/ GracefulService_token
    \/ Token_pending
    \/ \E i \in Tokens : Token_child_token(i)
    \/ \E i \in Tokens : Token_clone(i)
    \/ \E i \in Tokens : Token_drop(i)
    \/ \E i \in Tokens : Token_shutdown(i)
    \/ GracefulService_shutdown_req
    \/ shutdown_req_resolve
    \/ GracefulService_shutdown
    \/ shutdown_drop_tx
    \/ shutdown_recv
    \/ \E d \in 0..MaxDuration : GracefulService_shutdown_until(d)
    \/ shutdown_until_drop_tx
    \/ shutdown_until_recv
    \/ Tick

Spec == Init /\ [][Next]_vars

\* ------------------------------------------------ HttpProxyConnectorService
\* Option<T>: <<>> is None, <<v>> is Some(v).
IsSome(o) == o # <<>>
Unwrap(o) == o[1]

ProxyAddrs == {"10.0.0.1:8080", "10.0.0.2:3128"}

\* Strings are sequences of bytes.
alice == <<97, 108, 105, 99, 101>>
secret == <<115, 101, 99, 114, 101, 116>>
bob == <<98, 111, 98>>

\* ProxyCredentials: Basic { username, password: Option } | Bearer(token).
ProxyCredentialsSet ==
    { [kind |-> "Basic", username |-> alice, password |-> <<secret>>],
      [kind |-> "Basic", username |-> alice, password |-> <<>>],
      [kind |-> "Basic", username |-> bob, password |-> <<>>],
      [kind |-> "Basic", username |-> bob, password |-> <<<<120>>>>],
      [kind |-> "Bearer", token |-> <<116, 111, 107>>],
      [kind |-> "Bearer", token |-> <<116, 10, 107>>] }

\* HttpProxyInfo { proxy, credentials }
HttpProxyInfoSet ==
    [proxy : ProxyAddrs, credentials : {<<>>} \cup {<<c>> : c \in ProxyCredentialsSet}]

Authorities == {"example.com:443"}
RequestSet == [authority : {<<>>} \cup {<<a>> : a \in Authorities}]

\* A RequestContext that falls back to a default authority.
RequestContext_new_DefaultAuthority(r) ==
    [authority |-> IF r.authority = <<>> THEN <<"localhost:80">> ELSE r.authority]

\* RequestContext::new(&req): the authority is the one of the request, if any.
RequestContext_new(r) == [authority |-> r.authority]

RequestContextSet ==
    {RequestContext_new(r) : r \in RequestSet} \cup {[authority |-> <<"cached.example:80">>]}

\* An insert that stores nothing.
ctx_insert_ProxySocketAddr_Nothing(c, addr) == c

\* Context::insert: the value of that type is replaced, the others stay.
ctx_insert_ProxySocketAddr(c, addr) == [c EXCEPT !.ProxySocketAddr = <<addr>>]

\* An insert that replaces a RequestContext the Context already has.
ctx_get_or_insert_RequestContext_Overwrite(c, r) ==
    [c EXCEPT !.RequestContext = <<[authority |-> r.authority]>>]

\* Context::get_or_insert_with(|| RequestContext::new(&req)).
ctx_get_or_insert_RequestContext(c, r) ==
    IF IsSome(c.RequestContext) THEN c
    ELSE [c EXCEPT !.RequestContext = <<RequestContext_new(r)>>]

\* A static provider that yields to an HttpProxyInfo found in the Context.
ProviderInfo_ContextFirst(p, c) ==
    IF IsSome(c.HttpProxyInfo) THEN c.HttpProxyInfo ELSE p

\* Sealed::info, the info it gives: the static provider gives
\* Some(self.clone()), FromContext gives ctx.get::<HttpProxyInfo>().cloned().
ProviderInfo(p, c) ==
    IF IsSome(p) THEN p ELSE c.HttpProxyInfo

\* Sealed::info, its output: Ok(HttpProxyOutput { info, ctx }) with the
\* Context it was given; its Error is Infallible.
HttpProxyOutput(p, c) == [info |-> ProviderInfo(p, c), ctx |-> c]

\* A check that lets every value pass.
LegalHeaderValue_Any(bytes) == TRUE

\* HeaderValue: a legal value has no control bytes but the tab.
LegalHeaderValue(bytes) ==
    \A k \in 1..Len(bytes) : (bytes[k] >= 32 /\ bytes[k] # 127) \/ bytes[k] = 9

\* The character of the standard base64 alphabet for a 6-bit value.
Base64Char(n) ==
    IF n < 26 THEN 65 + n
    ELSE IF n < 52 THEN 97 + (n - 26)
    ELSE IF n < 62 THEN 48 + (n - 52)
    ELSE IF n = 62 THEN 43 ELSE 47

\* base64 with the standard alphabet and padding, as Authorization::basic
\* encodes "username:password".
RECURSIVE Base64(_)
Base64(bytes) ==
    IF Len(bytes) = 0 THEN <<>>
    ELSE IF Len(bytes) = 1
    THEN <<Base64Char(bytes[1] \div 4), Base64Char((bytes[1] % 4) * 16), 61, 61>>
    ELSE IF Len(bytes) = 2
    THEN <<Base64Char(bytes[1] \div 4),
           Base64Char((bytes[1] % 4) * 16 + bytes[2] \div 16),
           Base64Char((bytes[2] % 16) * 4), 61>>
    ELSE <<Base64Char(bytes[1] \div 4),
           Base64Char((bytes[1] % 4) * 16 + bytes[2] \div 16),
           Base64Char((bytes[2] % 16) * 4 + bytes[3] \div 64),
           Base64Char(bytes[3] % 64)>>
         \o Base64(SubSeq(bytes, 4, Len(bytes)))

\* "Basic " and "Bearer "
BasicPrefix == <<66, 97, 115, 105, 99, 32>>
BearerPrefix == <<66, 101, 97, 114, 101, 114, 32>>

\* A header value that sends the password only when there is one, without
\* the colon otherwise.
ProxyAuthorization_ColonOnlyWithPassword(credentials) ==
    IF credentials.kind = "Basic"
    THEN <<BasicPrefix \o Base64(IF IsSome(credentials.password)
                                 THEN credentials.username \o <<58>>
                                          \o Unwrap(credentials.password)
                                 ELSE credentials.username)>>
    ELSE IF LegalHeaderValue(BearerPrefix \o credentials.token)
         THEN <<BearerPrefix \o credentials.token>>
         ELSE <<>>

\* The value of the Proxy-Authorization header for the credentials:
\* Authorization::basic(username, password.unwrap_or_default()) encodes
\* "username:password", Authorization::bearer(token) is "Bearer token" if that
\* is a legal header value; <<>> if the credentials give no legal header.
ProxyAuthorization(credentials) ==
    IF credentials.kind = "Basic"
    THEN <<BasicPrefix \o Base64(credentials.username \o <<58>>
                                 \o (IF IsSome(credentials.password)
                                     THEN Unwrap(credentials.password)
                                     ELSE <<>>))>>
    ELSE IF LegalHeaderValue(BearerPrefix \o credentials.token)
         THEN <<BearerPrefix \o credentials.token>>
         ELSE <<>>

\* HttpProxyConnector::new(authority): no header yet.
HttpProxyConnector_new(authority) == [authority |-> authority, headers |-> <<>>]

\* HttpProxyConnector::with_typed_header: the header of that name is set,
\* replacing one of the same name.
with_typed_header(c, name, value) ==
    [c EXCEPT !.headers =
        SelectSeq(@, LAMBDA h : h.name # name) \o <<[name |-> name, value |-> value]>>]

ProxyInit ==
    /\ servePc = "start"
    /\ provider \in {<<>>} \cup {<<i>> : i \in HttpProxyInfoSet}
    /\ ctx \in [HttpProxyInfo : {<<>>} \cup {<<i>> : i \in HttpProxyInfoSet},
                ProxySocketAddr : {<<>>, <<"10.9.9.9:9">>},
                RequestContext : {<<>>} \cup {<<rc>> : rc \in RequestContextSet}]
    /\ req \in RequestSet
    /\ info = <<>>
    /\ innerOut = "none"
    /\ established_conn = <<>>
    /\ connector = <<>>
    /\ hsOut = "none"
    /\ served = "none"
    /\ response = <<>>
    /\ error = <<>>

\* serve, up to the call of the inner connector: the provider is asked, the
\* proxy address is stored in the Context if it gave an info.
serve_provider_info ==
    /\ servePc = "start"
    /\ LET out == HttpProxyOutput(provider, ctx)
       IN  /\ info' = out.info
           /\ ctx' = IF IsSome(out.info)
                     THEN ctx_insert_ProxySocketAddr(out.ctx, Unwrap(out.info).proxy)
                     ELSE out.ctx
    /\ servePc' = "inner"
    /\ UNCHANGED <<provider, req, innerOut, established_conn, connector, hsOut,
                   served, response, error>>
    /\ UNCHANGED nonProxy

\* The inner connector (not part of this service) fails.
inner_serve_err ==
    /\ servePc = "inner"
    /\ innerOut' = "Err"
    /\ servePc' = "inner_returned"
    /\ UNCHANGED <<provider, ctx, req, info, established_conn, connector, hsOut,
                   served, response, error>>
    /\ UNCHANGED nonProxy

\* The inner connector establishes a connection: it connects to the proxy
\* address if the Context has one, may have put the RequestContext into the
\* Context, and hands back Context, Request and connection.
inner_serve_ok(caches) ==
    /\ servePc = "inner"
    /\ innerOut' = "Ok"
    /\ LET c == IF caches THEN ctx_get_or_insert_RequestContext(ctx, req) ELSE ctx
           addr == IF IsSome(ctx.ProxySocketAddr)
                   THEN Unwrap(ctx.ProxySocketAddr) ELSE "192.0.2.1:443"
       IN  /\ established_conn' =
                <<[ctx |-> c, req |-> req,
                   conn |-> [addr |-> addr, stream |-> [written |-> <<>>]]]>>
           /\ ctx' = c
    /\ servePc' = "inner_returned"
    /\ UNCHANGED <<provider, req, info, connector, hsOut, served, response, error>>
    /\ UNCHANGED nonProxy

\* A decision that looks for the HttpProxyInfo in the Context again.
UsesProxy_FromContextOnly == IsSome(ctx.HttpProxyInfo)

\* `match info`: the handshake is for a Some(info), None returns early.
UsesProxy == IsSome(info)

\* A wrapping that hands the error on as it is.
OpaqueError_context_Verbatim(err, note) == err

\* OpaqueError::from_boxed(err).context(note): the error with the note added
\* in front.
OpaqueError_context(err, note) == <<note>> \o err

\* serve fails with the given context notes.
serve_return_err(notes) ==
    /\ served' = "Err"
    /\ error' = notes
    /\ servePc' = "done"
    /\ UNCHANGED <<response, connector>>

\* serve, from the return of the inner connector to its own return or to the
\* call of the handshake.
serve_after_inner ==
    /\ servePc = "inner_returned"
    /\ IF innerOut = "Err"
       THEN /\ serve_return_err(OpaqueError_context(<<"inner">>, "establish inner stream"))
            /\ UNCHANGED ctx
       ELSE IF ~UsesProxy
       THEN \* return early in case we did not use a proxy
            /\ served' = "Ok"
            /\ response' = established_conn
            /\ servePc' = "done"
            /\ UNCHANGED <<ctx, connector, error>>
       ELSE LET conn == Unwrap(established_conn)
                c == ctx_get_or_insert_RequestContext(conn.ctx, conn.req)
                authority == Unwrap(c.RequestContext).authority
                credentials == Unwrap(info).credentials
            IN  /\ ctx' = c
                /\ IF ~IsSome(authority)
                   THEN serve_return_err(<<"missing http authority">>)
                   ELSE IF IsSome(credentials) /\ ~IsSome(ProxyAuthorization(Unwrap(credentials)))
                   THEN serve_return_err(
                            OpaqueError_context(<<"invalid bearer token">>,
                                                "define http proxy bearer token"))
                   ELSE /\ connector' =
                             <<IF IsSome(credentials)
                               THEN with_typed_header(
                                        HttpProxyConnector_new(Unwrap(authority)),
                                        "proxy-authorization",
                                        Unwrap(ProxyAuthorization(Unwrap(credentials))))
                               ELSE HttpProxyConnector_new(Unwrap(authority))>>
                        /\ servePc' = "handshake"
                        /\ UNCHANGED <<served, response, error>>
    /\ UNCHANGED <<provider, req, info, innerOut, established_conn, hsOut>>
    /\ UNCHANGED nonProxy

\* HttpProxyConnector::handshake (not part of this service): the CONNECT
\* request goes out on the stream, the proxy answers with success or not.
connector_handshake(ok) ==
    /\ servePc = "handshake"
    /\ hsOut' = IF ok THEN "Ok" ELSE "Err"
    /\ established_conn' =
         [established_conn EXCEPT ![1].conn.stream.written =
             Append(@, [method |-> "CONNECT",
                        authority |-> Unwrap(connector).authority,
                        headers |-> Unwrap(connector).headers])]
    /\ servePc' = "handshake_returned"
    /\ UNCHANGED <<provider, ctx, req, info, innerOut, connector, served, response,
                   error>>
    /\ UNCHANGED nonProxy

\* A serve that sends the CONNECT request once more after a failed handshake.
serve_after_handshake_Retries ==
    /\ servePc = "handshake_returned"
    /\ IF hsOut = "Err" /\ Len(Unwrap(established_conn).conn.stream.written) < 2
       THEN /\ servePc' = "handshake"
            /\ UNCHANGED <<served, response, connector, error>>
       ELSE IF hsOut = "Err"
       THEN serve_return_err(OpaqueError_context(<<"handshake">>, "http proxy handshake"))
       ELSE /\ served' = "Ok"
            /\ response' =
                 <<[ctx |-> ctx, req |-> Unwrap(established_conn).req,
                    conn |-> [addr |-> Unwrap(established_conn).conn.addr,
                              stream |-> Unwrap(established_conn).conn.stream]]>>
            /\ servePc' = "done"
            /\ UNCHANGED <<connector, error>>
    /\ UNCHANGED <<provider, ctx, req, info, innerOut, established_conn, hsOut>>
    /\ UNCHANGED nonProxy

\* serve, after the handshake: its error is wrapped, or the connection is
\* handed on with the stream of the handshake and the address as it was.
serve_after_handshake ==
    /\ servePc = "handshake_returned"
    /\ IF hsOut = "Err"
       THEN serve_return_err(OpaqueError_context(<<"handshake">>, "http proxy handshake"))
       ELSE /\ served' = "Ok"
            /\ response' =
                 <<[ctx |-> ctx, req |-> Unwrap(established_conn).req,
                    conn |-> [addr |-> Unwrap(established_conn).conn.addr,
                              stream |-> Unwrap(established_conn).conn.stream]]>>
            /\ servePc' = "done"
            /\ UNCHANGED <<connector, error>>
    /\ UNCHANGED <<provider, ctx, req, info, innerOut, established_conn, hsOut>>
    /\ UNCHANGED nonProxy

NextProxy ==
    \/ serve_provider_info
    \/ inner_serve_err
    \/ \E caches \in BOOLEAN : inner_serve_ok(caches)
    \/ serve_after_inner
    \/ \E ok \in BOOLEAN : connector_handshake(ok)
    \/ serve_after_handshake

\* One serve call with its inputs; no shutdown is under way.
InitProxy == GracefulInit /\ ProxyInit /\ TlsOff /\ StreamOff /\ ContextOff /\ HostOff

SpecProxy == InitProxy /\ [][NextProxy]_vars

\* ------------------------------------------------------------- TlsConnector
\* TlsConnectorData, as far as the connector reads it: where it came from,
\* the server name it configures, and whether a client config can be built.
TlsConnectorDataSet(id) ==
    [id : {id}, server_name : {<<>>, <<"sni.example">>}, buildable : BOOLEAN]

\* TlsConnectorData::new_http_auto(): Err, or data without a server name.
NewHttpAutoSet ==
    {<<>>} \cup {<<[id |-> "default", server_name |-> <<>>, buildable |-> b]>> :
                    b \in BOOLEAN}

\* ConnectorKindAuto | ConnectorKindSecure | ConnectorKindTunnel { host }
ConnectorKindSet ==
    { [name |-> "Auto", host |-> <<>>],
      [name |-> "Secure", host |-> <<>>],
      [name |-> "Tunnel", host |-> <<>>],
      [name |-> "Tunnel", host |-> <<"configured.example">>] }

\* TransportContext { authority, app_protocol }
TransportContextSet(host) ==
    [authority_host : {host}, app_protocol : {<<>>, <<"http">>, <<"https">>}]

\* NegotiatedTlsParameters { protocol_version, application_layer_protocol }
\* that an earlier layer left in the Context.
EarlierTlsParameters ==
    [protocol_version |-> "TLSv1_0", application_layer_protocol |-> <<>>]

\* Protocol::is_secure
is_secure(p) == p = "https"

\* A check that takes an absent application protocol for a secure one.
AppProtocolSecure_AbsentIsSecure(tc) ==
    IF IsSome(tc.app_protocol) THEN is_secure(Unwrap(tc.app_protocol)) ELSE TRUE

\* app_protocol.as_ref().map(|p| p.is_secure()).unwrap_or_default()
AppProtocolSecure(tc) ==
    IF IsSome(tc.app_protocol) THEN is_secure(Unwrap(tc.app_protocol)) ELSE FALSE

\* A lookup that computes the TransportContext from the request each time and
\* stores it over the one the Context has.
get_or_try_insert_TransportContext_Recomputes(c, r) ==
    IF IsSome(r.transport_ctx)
    THEN <<[c EXCEPT !.TransportContext = r.transport_ctx]>>
    ELSE <<>>

\* ctx.get_or_try_insert_with_ctx(|ctx| req.try_ref_into_transport_ctx(ctx)):
\* the TransportContext of the Context if it has one, else the one computed
\* from the request, which is stored; <<>> if that fails.
get_or_try_insert_TransportContext(c, r) ==
    IF IsSome(c.TransportContext) THEN <<c>>
    ELSE IF IsSome(r.transport_ctx)
         THEN <<[c EXCEPT !.TransportContext = r.transport_ctx]>>
         ELSE <<>>

\* A tunnel that prefers its configured host to the marker of the Context.
TunnelHost_ConfiguredFirst(c, k) ==
    IF IsSome(k.host) THEN k.host
    ELSE IF IsSome(c.TlsTunnel) THEN <<Unwrap(c.TlsTunnel).server_host>>
    ELSE <<>>

\* ctx.get::<TlsTunnel>().as_ref().map(|t| &t.server_host).or(self.kind.host.as_ref())
TunnelHost(c, k) ==
    IF IsSome(c.TlsTunnel) THEN <<Unwrap(c.TlsTunnel).server_host>> ELSE k.host

\* A resolution that prefers the data of the connector to the data of the call.
ResolveConnectorData_ConnectorFirst(connector_data, self_data, default) ==
    IF IsSome(self_data) THEN self_data
    ELSE IF IsSome(connector_data) THEN connector_data
    ELSE default

\* connector_data.as_ref().or(self.connector_data.as_ref()), and
\* TlsConnectorData::new_http_auto() for None: <<>> if that fails.
ResolveConnectorData(connector_data, self_data, default) ==
    IF IsSome(connector_data) THEN connector_data
    ELSE IF IsSome(self_data) THEN self_data
    ELSE default

\* TlsConnectorData::try_to_build_config: the client config with the server
\* name of the data, <<>> for Err.
try_to_build_config(data) ==
    IF data.buildable
    THEN <<[config |-> data.id, server_name |-> data.server_name]>>
    ELSE <<>>

\* A name that is always the host handed to handshake.
ServerName_HostOnly(client_config_data, host) == host

\* client_config_data.server_name.unwrap_or(server_host)
ServerName(client_config_data, host) ==
    IF IsSome(client_config_data.server_name)
    THEN Unwrap(client_config_data.server_name)
    ELSE host

\* What tokio_boring::connect can give: an error that is an I/O error or not,
\* or a stream whose session is absent or has a protocol version, mapped to
\* the ProtocolVersion enumeration or not, and the selected ALPN if any.
BoringOutcomes ==
    [result : {"Err"}, io : BOOLEAN]
    \cup [result : {"Ok"}, session : {<<>>}, alpn : {<<>>}]
    \cup [result : {"Ok"},
          session : {<<[protocol_version |-> v]>> : v \in {"TLSv1_2", "TLSv1_3", "unmapped"}},
          alpn : {<<>>, <<"h2">>}]

\* One serve call with its inputs.
TlsInit ==
    /\ tlsPc = "start"
    /\ kind \in ConnectorKindSet
    /\ self_connector_data \in {<<>>} \cup {<<d>> : d \in TlsConnectorDataSet("connector")}
    /\ new_http_auto \in NewHttpAutoSet
    /\ tls_ctx \in
         [TlsConnectorData : {<<>>} \cup {<<d>> : d \in TlsConnectorDataSet("ctx")},
          TlsTunnel : {<<>>, <<[server_host |-> "tunnel.example"]>>},
          TransportContext :
              {<<>>, <<[authority_host |-> "cached.example", app_protocol |-> <<"https">>]>>},
          NegotiatedTlsParameters : {<<>>, <<EarlierTlsParameters>>}]
    /\ tls_req \in [transport_ctx :
                      {<<>>} \cup {<<t>> : t \in TransportContextSet("req.example")}]
    /\ connOut = "none"
    /\ tls_conn = <<>>
    /\ hsCalled = FALSE
    /\ hsData = "none"
    /\ server_host = <<>>
    /\ server_name = <<>>
    /\ boringOut = <<>>
    /\ tlsServed = "none"
    /\ tlsResponse = <<>>
    /\ tlsError = <<>>

\* self.inner.connect(ctx, req) (not part of this connector): it fails, or
\* hands back Context, Request, connection and address.
inner_connect(ok) ==
    /\ tlsPc = "start"
    /\ connOut' = IF ok THEN "Ok" ELSE "Err"
    /\ tls_conn' = IF ok THEN <<[stream |-> "inner", addr |-> "192.0.2.1:443"]>> ELSE <<>>
    /\ tlsPc' = "connected"
    /\ UNCHANGED <<kind, self_connector_data, new_http_auto, tls_ctx, tls_req, hsCalled,
                   hsData, server_host, server_name, boringOut, tlsServed, tlsResponse,
                   tlsError>>
    /\ UNCHANGED nonTls

\* serve returns Err with the given notes.
tls_return_err(notes) ==
    /\ tlsServed' = "Err"
    /\ tlsError' = notes
    /\ tlsPc' = "done"
    /\ UNCHANGED tlsResponse

\* A Plain return that reports an address of its own in place of the one the
\* inner connector gave.
tls_return_plain_OwnAddr(c) ==
    /\ tlsServed' = "Ok"
    /\ tlsResponse' =
         <<[ctx |-> c, req |-> tls_req,
            conn |-> [type |-> "AutoTlsStream", variant |-> "Plain",
                      inner |-> Unwrap(tls_conn).stream],
            addr |-> "0.0.0.0:0"]>>
    /\ tlsPc' = "done"
    /\ UNCHANGED tlsError

\* serve returns the inner connection as AutoTlsStreamData::Plain.
tls_return_plain(c) ==
    /\ tlsServed' = "Ok"
    /\ tlsResponse' =
         <<[ctx |-> c, req |-> tls_req,
            conn |-> [type |-> "AutoTlsStream", variant |-> "Plain",
                      inner |-> Unwrap(tls_conn).stream],
            addr |-> Unwrap(tls_conn).addr]>>
    /\ tlsPc' = "done"
    /\ UNCHANGED tlsError

\* self.handshake(ctx.get().cloned(), host, conn), up to the call of
\* tokio_boring::connect: the data is resolved, the config built, the server
\* name chosen; a failure of new_http_auto or try_to_build_config is handed
\* on as it is.
handshake_begin(c, host) ==
    LET data == ResolveConnectorData(c.TlsConnectorData, self_connector_data, new_http_auto)
        client_config_data == IF IsSome(data) THEN try_to_build_config(Unwrap(data)) ELSE <<>>
    IN  /\ hsCalled' = TRUE
        /\ server_host' = <<host>>
        /\ hsData' = IF IsSome(data) THEN Unwrap(data).id ELSE "default"
        /\ IF IsSome(client_config_data)
           THEN /\ server_name' = <<ServerName(Unwrap(client_config_data), host)>>
                /\ tlsPc' = "handshake"
                /\ UNCHANGED <<tlsServed, tlsResponse, tlsError>>
           ELSE /\ tls_return_err(<<"tls config">>)
                /\ UNCHANGED server_name

\* A Secure connector that looks at the protocol as the Auto connector does.
ChecksProtocol_SecureToo(k) == k.name \in {"Auto", "Secure"}

\* Only the Auto connector returns early for a protocol that is not secure.
ChecksProtocol(k) == k.name = "Auto"

\* serve, from the return of the inner connector to its own return or to the
\* call of tokio_boring::connect.
tls_serve_after_connect ==
    /\ tlsPc = "connected"
    /\ IF connOut = "Err"
       THEN /\ tls_return_err(<<"inner connect">>)
            /\ UNCHANGED <<tls_ctx, hsCalled, hsData, server_host, server_name>>
       ELSE IF kind.name = "Tunnel"
       THEN /\ UNCHANGED tls_ctx
            /\ IF IsSome(TunnelHost(tls_ctx, kind))
               THEN handshake_begin(tls_ctx, Unwrap(TunnelHost(tls_ctx, kind)))
               ELSE /\ tls_return_plain(tls_ctx)
                    /\ UNCHANGED <<hsCalled, hsData, server_host, server_name>>
       ELSE LET c == get_or_try_insert_TransportContext(tls_ctx, tls_req)
            IN  IF ~IsSome(c)
                THEN /\ tls_return_err(<<"TlsConnector(auto): compute transport context",
                                         "request">>)
                     /\ UNCHANGED <<tls_ctx, hsCalled, hsData, server_host, server_name>>
                ELSE /\ tls_ctx' = Unwrap(c)
                     /\ IF /\ ChecksProtocol(kind)
                           /\ ~AppProtocolSecure(Unwrap(Unwrap(c).TransportContext))
                        THEN /\ tls_return_plain(Unwrap(c))
                             /\ UNCHANGED <<hsCalled, hsData, server_host, server_name>>
                        ELSE handshake_begin(
                                 Unwrap(c),
                                 Unwrap(Unwrap(c).TransportContext).authority_host)
    /\ UNCHANGED <<kind, self_connector_data, new_http_auto, tls_req, connOut, tls_conn,
                   boringOut>>
    /\ UNCHANGED nonTls

\* tokio_boring::connect(config, server_name, stream) (not part of this
\* connector) returns.
boring_connect(out) ==
    /\ tlsPc = "handshake"
    /\ boringOut' = <<out>>
    /\ tlsPc' = "handshake_returned"
    /\ UNCHANGED <<kind, self_connector_data, new_http_auto, tls_ctx, tls_req, connOut,
                   tls_conn, hsCalled, hsData, server_host, server_name, tlsServed,
                   tlsResponse, tlsError>>
    /\ UNCHANGED nonTls

\* Parameters that keep a protocol version the enumeration does not have.
NegotiatedParams_UnmappedKept(out) ==
    IF out.result = "Ok" /\ IsSome(out.session)
    THEN <<[protocol_version |-> Unwrap(out.session).protocol_version,
            application_layer_protocol |-> out.alpn]>>
    ELSE <<>>

\* handshake, after tokio_boring::connect: the NegotiatedTlsParameters of a
\* stream with a session whose protocol version has a ProtocolVersion, <<>>
\* if there are none.
NegotiatedParams(out) ==
    IF /\ out.result = "Ok"
       /\ IsSome(out.session)
       /\ Unwrap(out.session).protocol_version # "unmapped"
    THEN <<[protocol_version |-> Unwrap(out.session).protocol_version,
            application_layer_protocol |-> out.alpn]>>
    ELSE <<>>

\* An error that reports a missing session as a failed connect.
HandshakeError_SessionAsConnect(out) ==
    IF out.result = "Err" /\ out.io
    THEN <<"boring ssl connector: connect", "io">>
    ELSE IF out.result = "Err" \/ ~IsSome(out.session)
    THEN <<"boring ssl connector: connect">>
    ELSE <<"boring ssl connector: min proto version", "protocol version">>

\* handshake, after tokio_boring::connect: the error for an outcome without
\* parameters.
HandshakeError(out) ==
    IF out.result = "Err"
    THEN IF out.io
         THEN <<"boring ssl connector: connect", "io">>
         ELSE <<"boring ssl connector: connect">>
    ELSE IF ~IsSome(out.session)
    THEN <<"boring ssl connector: failed to establish session...">>
    ELSE <<"boring ssl connector: min proto version", "protocol version">>

\* serve, after tokio_boring::connect returned: the error of handshake is
\* handed on, or the parameters are stored in the Context and the secure
\* stream is returned, as it is by the Secure connector and as
\* AutoTlsStreamData::Secure by the others.
tls_serve_after_handshake ==
    /\ tlsPc = "handshake_returned"
    /\ LET out == Unwrap(boringOut)
           params == NegotiatedParams(out)
           c == [tls_ctx EXCEPT !.NegotiatedTlsParameters = params]
           stream == [type |-> "SslStream", inner |-> Unwrap(tls_conn).stream]
       IN  IF ~IsSome(params)
           THEN /\ tls_return_err(HandshakeError(out))
                /\ UNCHANGED tls_ctx
           ELSE /\ tls_ctx' = c
                /\ tlsServed' = "Ok"
                /\ tlsResponse' =
                     <<[ctx |-> c, req |-> tls_req,
                        conn |-> IF kind.name = "Secure" THEN stream
                                 ELSE [type |-> "AutoTlsStream", variant |-> "Secure",
                                       inner |-> stream],
                        addr |-> Unwrap(tls_conn).addr]>>
                /\ tlsPc' = "done"
                /\ UNCHANGED tlsError
    /\ UNCHANGED <<kind, self_connector_data, new_http_auto, tls_req, connOut, tls_conn,
                   hsCalled, hsData, server_host, server_name, boringOut>>
    /\ UNCHANGED nonTls

NextTls ==
    \/ \E ok \in BOOLEAN : inner_connect(ok)
    \/ tls_serve_after_connect
    \/ \E out \in BoringOutcomes : boring_connect(out)
    \/ tls_serve_after_handshake

InitTls == GracefulInit /\ ProxyOff /\ TlsInit /\ StreamOff /\ ContextOff /\ HostOff

SpecTls == InitTls /\ [][NextTls]_vars

\* ------------------------------------------------------------ AutoTlsStream
\* An AutoTlsStream as serve constructs it: AutoTlsStreamData::Secure over an
\* SslStream, or AutoTlsStreamData::Plain over the inner stream.
StreamInit ==
    /\ autoStream \in {<<[variant |-> "Secure"]>>, <<[variant |-> "Plain"]>>}
    /\ calls = <<>>
    /\ secureOps = <<>>
    /\ plainOps = <<>>

\* An operation can be called on the AutoTlsStream.
Callable == IsSome(autoStream) /\ Len(calls) < MaxOps

\* A flush that always goes to the plain stream underneath.
poll_flush_PlainOnly ==
    /\ Callable
    /\ calls' = Append(calls, "flush")
    /\ plainOps' = Append(plainOps, "flush")
    /\ UNCHANGED <<autoStream, secureOps>>
    /\ UNCHANGED nonStream

\* AsyncRead::poll_read: match self.project().inner.project(), the call goes
\* to the inner stream of the variant.
poll_read ==
    /\ Callable
    /\ calls' = Append(calls, "read")
    /\ IF Unwrap(autoStream).variant = "Secure"
       THEN secureOps' = Append(secureOps, "read") /\ UNCHANGED plainOps
       ELSE plainOps' = Append(plainOps, "read") /\ UNCHANGED secureOps
    /\ UNCHANGED autoStream
    /\ UNCHANGED nonStream

\* AsyncWrite::poll_write: match self.project().inner.project(), the call goes
\* to the inner stream of the variant.
poll_write ==
    /\ Callable
    /\ calls' = Append(calls, "write")
    /\ IF Unwrap(autoStream).variant = "Secure"
       THEN secureOps' = Append(secureOps, "write") /\ UNCHANGED plainOps
       ELSE plainOps' = Append(plainOps, "write") /\ UNCHANGED secureOps
    /\ UNCHANGED autoStream
    /\ UNCHANGED nonStream

\* AsyncWrite::poll_flush: match self.project().inner.project(), the call goes
\* to the inner stream of the variant.
poll_flush ==
    /\ Callable
    /\ calls' = Append(calls, "flush")
    /\ IF Unwrap(autoStream).variant = "Secure"
       THEN secureOps' = Append(secureOps, "flush") /\ UNCHANGED plainOps
       ELSE plainOps' = Append(plainOps, "flush") /\ UNCHANGED secureOps
    /\ UNCHANGED autoStream
    /\ UNCHANGED nonStream

\* AsyncWrite::poll_shutdown: match self.project().inner.project(), the call goes
\* to the inner stream of the variant.
poll_shutdown ==
    /\ Callable
    /\ calls' = Append(calls, "shutdown")
    /\ IF Unwrap(autoStream).variant = "Secure"
       THEN secureOps' = Append(secureOps, "shutdown") /\ UNCHANGED plainOps
       ELSE plainOps' = Append(plainOps, "shutdown") /\ UNCHANGED secureOps
    /\ UNCHANGED autoStream
    /\ UNCHANGED nonStream

NextStream ==
    \/ poll_read
    \/ poll_write
    \/ poll_flush
    \/ poll_shutdown

InitStream == GracefulInit /\ ProxyOff /\ TlsOff /\ StreamInit /\ ContextOff /\ HostOff

SpecStream == InitStream /\ [][NextStream]_vars

\* ------------------------------------------------------------------ Context
\* The types of the values the pipeline keeps in a Context.
TypeIds == {"HttpProxyInfo", "ProxySocketAddr", "RequestContext"}

\* The values of one type, told apart by name.
TypeValues == {"v1", "v2"}

\* An insert that adds the value next to the one the Context already holds.
Context_insert_KeepsEarlier(entries, T, v) == entries \cup {<<T, v>>}

\* Context::insert: the mapping from type to value takes v as the value of
\* type T; what it held for T is replaced.
Context_insert(entries, T, v) == {e \in entries : e[1] # T} \cup {<<T, v>>}

\* Context::get::<T>: a borrow of the value held for type T, None if there is
\* none.
Context_get(entries, T) ==
    IF \E e \in entries : e[1] = T
    THEN <<(CHOOSE e \in entries : e[1] = T)[2]>>
    ELSE <<>>

\* A new Context holds nothing.
ContextInit ==
    /\ extensions = {}
    /\ inserted = <<>>

\* ctx.insert(v) with v of type T.
insert(T, v) ==
    /\ Len(inserted) < MaxInserts
    /\ extensions' = Context_insert(extensions, T, v)
    /\ inserted' = Append(inserted, <<T, v>>)
    /\ UNCHANGED nonContext

NextContext == \E T \in TypeIds, v \in TypeValues : insert(T, v)

InitContext == GracefulInit /\ ProxyOff /\ TlsOff /\ StreamOff /\ ContextInit /\ HostOff

SpecContext == InitContext /\ [][NextContext]_vars

\* ----------------------------------------------------------- Host extractor
\* An Authority: a host and, where one is known, a port.
HostAuthority(h, p) == [host |-> h, port |-> p]

\* The RequestContext an earlier layer may have stored in the Context.
StoredRequestContextSet ==
    {<<>>,
     <<[authority |-> HostAuthority("stored-domain", <<"80">>)]>>,
     <<[authority |-> HostAuthority("other-stored-domain", <<"8080">>)]>>}

\* The Forwarded element GetForwardedHeadersService::x_forwarded_host may have
\* stored in the Context: the client host, with or without a port.
ForwardedSet ==
    {<<>>,
     <<HostAuthority("forwarded-domain", <<"456">>)>>,
     <<HostAuthority("forwarded-domain", <<>>)>>}

\* The value of the Host header, if the request has one: host, host ":" port,
\* or something that is neither.
HostHeaderSet ==
    {<<>>, <<<<"some-domain", ":", "123">>>>, <<<<"header-domain">>>>, <<<<":">>>>}

\* The host of the request URI: none for "/", example.com for
\* "http://example.com".
UriHostSet == {<<>>, <<"example.com">>}

\* The authority a Host header value stands for, None if it is not one.
ParseHostHeader(v) ==
    IF Len(v) = 1 /\ v[1] # ":" THEN <<HostAuthority(v[1], <<>>)>>
    ELSE IF Len(v) = 3 /\ v[1] # ":" /\ v[2] = ":" /\ v[3] # ":"
         THEN <<HostAuthority(v[1], <<v[3]>>)>>
         ELSE <<>>

\* RequestContext::try_from((ctx, parts)): the results it can have, <<>> being
\* the error. The forwarded client host comes first; without it the host is
\* that of the Host header or that of the URI, in an order the extractor and its
\* tests do not fix: with both present either may be the result.
RequestContext_try_from(c, p) ==
    LET header == IF IsSome(p.host_header)
                  THEN ParseHostHeader(Unwrap(p.host_header)) ELSE <<>>
        candidates ==
            (IF IsSome(header) THEN {Unwrap(header)} ELSE {})
            \cup (IF IsSome(p.uri_host)
                  THEN {HostAuthority(Unwrap(p.uri_host), <<>>)} ELSE {})
    IN  IF IsSome(c.Forwarded) THEN {<<[authority |-> Unwrap(c.Forwarded)]>>}
        ELSE IF candidates = {} THEN {<<>>}
        ELSE {<<[authority |-> a]>> : a \in candidates}

\* An accessor that hands out the whole authority, port included.
AuthorityHost_WithPort(a) == a

\* Authority::host: the host of the authority, without its port.
AuthorityHost(a) == a.host

\* The rejection MissingHost: 400 Bad Request with a fixed body.
MissingHost == [status |-> 400, body |-> "Failed to detect the Http host"]

\* from_request_parts is about to be called with some Context and Parts.
HostInit ==
    /\ hostPc = "call"
    /\ host_ctx \in [RequestContext : StoredRequestContextSet, Forwarded : ForwardedSet]
    /\ host_parts \in [host_header : HostHeaderSet, uri_host : UriHostSet]
    /\ hostResult = <<>>

\* An extractor that computes the RequestContext anew even when the Context
\* holds one.
from_request_parts_ComputesAlways ==
    /\ hostPc = "call"
    /\ hostPc' = "done"
    /\ \E computed \in RequestContext_try_from(host_ctx, host_parts) :
            hostResult' = IF IsSome(computed)
                          THEN <<"Ok", AuthorityHost(Unwrap(computed).authority)>>
                          ELSE <<"Err", MissingHost>>
    /\ UNCHANGED <<host_ctx, host_parts>>
    /\ UNCHANGED nonHost

\* FromRequestParts for Host: the host of the RequestContext of the Context if
\* there is one, else that of RequestContext::try_from((ctx, parts)), whose
\* error is mapped to MissingHost.
from_request_parts ==
    /\ hostPc = "call"
    /\ hostPc' = "done"
    /\ IF IsSome(host_ctx.RequestContext)
       THEN hostResult' =
                <<"Ok", AuthorityHost(Unwrap(host_ctx.RequestContext).authority)>>
       ELSE \E computed \in RequestContext_try_from(host_ctx, host_parts) :
                hostResult' = IF IsSome(computed)
                              THEN <<"Ok", AuthorityHost(Unwrap(computed).authority)>>
                              ELSE <<"Err", MissingHost>>
    /\ UNCHANGED <<host_ctx, host_parts>>
    /\ UNCHANGED nonHost

NextHost == from_request_parts

InitHost == GracefulInit /\ ProxyOff /\ TlsOff /\ StreamOff /\ ContextOff /\ HostInit

SpecHost == InitHost /\ [][NextHost]_vars

\* ------------------------------------------------- the stages of the pipeline
\* One serve call of one stage, the proxy connector or a TLS connector, with
\* its inputs.
InitStages == InitProxy \/ InitTls

NextStages ==
    \/ serve_provider_info
    \/ inner_serve_err
    \/ \E caches \in BOOLEAN : inner_serve_ok(caches)
    \/ serve_after_inner
    \/ \E ok \in BOOLEAN : connector_handshake(ok)
    \/ serve_after_handshake
    \/ \E ok \in BOOLEAN : inner_connect(ok)
    \/ tls_serve_after_connect
    \/ \E out \in BoringOutcomes : boring_connect(out)
    \/ tls_serve_after_handshake

SpecStages == InitStages /\ [][NextStages]_vars

\* The scheduler polls a woken task: the signal watcher and the future of the
\* service's owner make their step once it is possible.
FairSpec ==
    /\ Spec
    /\ WF_vars(WatcherCancel)
    /\ WF_vars(shutdown_req_resolve)
    /\ WF_vars(shutdown_drop_tx)
    /\ WF_vars(shutdown_recv)
    /\ WF_vars(shutdown_until_drop_tx)
    /\ WF_vars(shutdown_until_recv)

\* ------------------------------------------------------------------ claims
\* Tokens that came from the service, by token(), child_token() or clone.
ServiceTokens == {i \in LiveTokens : tokOrigin[i] = "service"}
PendingTokens == {i \in LiveTokens : tokOrigin[i] = "pending"}

\* C1: shutdown() never resolves while a Token obtained from the service
\* (token(), child_token(), clone) is alive: the step that resolves it is
\* taken with none alive, and none is alive in any state after it.
C1_ShutdownAfterLastDrop ==
    /\ [](ret = "unit" => ServiceTokens = {})
    /\ [][(svcPc = "shutdown_recv" /\ svcPc' = "returned") => ServiceTokens = {}]_vars

\* C1 witness: shutdown() has resolved after all MaxTokens Token values, each
\* with a cancellation node of its own that was cancelled, were dropped.
C1_Witness ==
    /\ ret = "unit"
    /\ \A i \in Tokens : tokSt[i] = "dropped" /\ ncancelled[i]

\* C2: once the signal has resolved and no Token of the service is alive, a
\* pending shutdown() resolves (the watcher and the future being polled).
C2_ShutdownResolves ==
    (svcPc \in {"shutdown", "shutdown_recv"} /\ signal /\ ServiceTokens = {})
        ~> (ret = "unit")

\* C2 witness: shutdown() resolved with no Token ever issued.
C2_Witness ==
    /\ ret = "unit"
    /\ \A i \in Tokens : tokSt[i] = "free"

C4_ShutdownReq ==
    /\ [][(svcPc = "shutdown_req" /\ svcPc' # "shutdown_req") =>
            /\ RootCancelled
            /\ svcPc' = "idle"
            /\ svcTx /\ svcTx'
            /\ senders' = senders
            /\ nhandles' = nhandles]_vars
    /\ ((svcPc = "shutdown_req" /\ RootCancelled) ~> (svcPc = "idle" /\ reqDone))
    /\ []((reqDone /\ svcPc = "idle" /\ FreeTokens # {}) => ENABLED GracefulService_token)

\* C4 witness: shutdown_req() has resolved with two Tokens outstanding, the
\* service still holds its sender and is with its owner.
C4_Witness ==
    /\ reqDone
    /\ svcPc = "idle"
    /\ svcTx
    /\ Cardinality(ServiceTokens) >= 2

\* C5: the shutdown future of a Token that comes from Token::pending(),
\* directly or by child_token() or clone, is never ready and its holder never
\* sees it resolve.
C5_PendingNeverResolves ==
    \A i \in PendingTokens :
        /\ ~TokenShutdownReady(i)
        /\ ~tokSeen[i]
        /\ ~ENABLED Token_shutdown(i)

\* C5 witness: the signal has fired, a Token of the service has seen its
\* shutdown, and two pending Tokens are alive.
C5_Witness ==
    /\ RootCancelled
    /\ Cardinality(PendingTokens) >= 2
    /\ \E k \in ServiceTokens : tokSeen[k]

\* C6: the shutdown future of a Token of the service is ready iff the watcher
\* has cancelled the root token, and its holder sees it resolve only then.
C6_ResolvedIffRootCancelled ==
    \A i \in ServiceTokens :
        /\ TokenShutdownReady(i) <=> watcher = "done"
        /\ TokenShutdownReady(i) <=> RootCancelled
        /\ tokSeen[i] => watcher = "done"

\* C6 witness: a child Token has seen its shutdown although the node of the
\* Token it was made from was dropped before the cancellation.
C6_Witness ==
    \E i \in ServiceTokens :
        /\ tokSeen[i]
        /\ tokNode[i] = i
        /\ ncreator[i] \notin {Root, NoNode}
        /\ nhandles[ncreator[i]] = 0
        /\ ~ncancelled[ncreator[i]]

\* C7 as stated: shutdown() and shutdown_until() complete only after every
\* outstanding Token was dropped.
C7_Original ==
    svcPc = "returned" => ServiceTokens = {}

\* C7 amended: shutdown() and a shutdown_until() that returns Ok(()) complete
\* only after every outstanding Token was dropped and stay so; a
\* shutdown_until() that returns Err(TimeoutError) completes while a Token is
\* outstanding.
C7_CompletionAfterDrops ==
    /\ [](ret \in {"unit", "Ok"} => (ServiceTokens = {} /\ senders = 0))
    /\ [][(ret = "none" /\ ret' = "Err") => ServiceTokens # {}]_vars

\* C7 witness: shutdown_until() returned Ok(()) after all MaxTokens Token
\* values, each with a cancelled node of its own, were dropped.
C7_Witness ==
    /\ ret = "Ok"
    /\ \A i \in Tokens : tokSt[i] = "dropped" /\ ncancelled[i]

\* C8: the step in which shutdown_until() returns Err(TimeoutError) changes
\* no Token, no cancellation state and no sender, and afterwards every Token
\* that is alive can still be dropped, cloned and asked for a child, its
\* shutdown future being ready as before.
C8_TimeoutLeavesTokens ==
    /\ [][(ret = "none" /\ ret' = "Err") =>
            UNCHANGED <<tokSt, tokState, tokNode, tokSeen, tokOrigin, ncancelled,
                        senders>>]_vars
    /\ [](ret = "Err" =>
            \A i \in LiveTokens :
                /\ ENABLED Token_drop(i)
                /\ (FreeTokens # {} => (ENABLED Token_clone(i) /\ ENABLED Token_child_token(i)))
                /\ (i \in ServiceTokens => TokenShutdownReady(i)))

\* C8 witness: after the timeout one Token of the service has seen its
\* shutdown and another one is alive and has not looked yet.
C8_Witness ==
    /\ ret = "Err"
    /\ \E i, j \in ServiceTokens : tokSeen[i] /\ ~tokSeen[j]

\* The nodes a node descends from by child_token().
RECURSIVE CreationAncestors(_)
CreationAncestors(n) ==
    IF ncreator[n] = NoNode THEN {}
    ELSE {ncreator[n]} \cup CreationAncestors(ncreator[n])

\* C9: a cancelled node stays cancelled, and a node that has a handle is
\* cancelled iff one of the nodes it descends from is (cancel() being called
\* on the root only).
C9_CancellationMonotonic ==
    /\ [][\A n \in Nodes : ncancelled[n] => ncancelled'[n]]_vars
    /\ [](\A n \in Nodes \ {Root} :
            nhandles[n] > 0 =>
                (ncancelled[n] <=> \E a \in CreationAncestors(n) : ncancelled[a]))

\* C9 witness: a grandchild of the root is cancelled, the node in between was
\* dropped uncancelled.
C9_Witness ==
    \E n \in Nodes \ {Root} :
        /\ nhandles[n] > 0
        /\ ncancelled[n]
        /\ ncreator[n] \notin {Root, NoNode}
        /\ ~ncancelled[ncreator[n]]

\* The provider has an HttpProxyInfo to give: a static one, or the one in the
\* Context for the provider that reads the Context.
PresentInfo == IsSome(provider) \/ IsSome(ctx.HttpProxyInfo)

\* The CONNECT handshake was executed.
HandshakeExecuted == hsOut # "none"

\* C10 as stated: serve executes the CONNECT handshake iff the provider gave
\* an HttpProxyInfo and the inner connector succeeded; without an info it
\* returns the connection of the inner connector as it is.
C10_Original ==
    servePc = "done" =>
        /\ HandshakeExecuted <=> (PresentInfo /\ innerOut = "Ok")
        /\ (~PresentInfo /\ innerOut = "Ok") =>
              (served = "Ok" /\ response = established_conn)

\* C10 amended: serve executes the CONNECT handshake iff the provider gave an
\* HttpProxyInfo, the inner connector succeeded, the target authority is known
\* and the credentials, if any, give a legal Proxy-Authorization header;
\* without an info it never does, and returns the connection of the inner
\* connector as it is, nothing written to its stream.
C10_HandshakeIffInfoAndAuthority ==
    servePc = "done" =>
        /\ HandshakeExecuted <=>
              /\ PresentInfo
              /\ innerOut = "Ok"
              /\ IsSome(ctx.RequestContext)
              /\ IsSome(Unwrap(ctx.RequestContext).authority)
              /\ \/ ~IsSome(Unwrap(info).credentials)
                 \/ Unwrap(Unwrap(info).credentials).kind = "Basic"
                 \/ LegalHeaderValue(BearerPrefix \o Unwrap(Unwrap(info).credentials).token)
        /\ (~PresentInfo /\ innerOut = "Ok") =>
              /\ served = "Ok"
              /\ response = established_conn
              /\ Unwrap(response).conn.stream.written = <<>>
        /\ IsSome(info) <=> PresentInfo

\* C10 witness: the provider that reads the Context found an info there and
\* serve returned the connection after a successful handshake.
C10_Witness ==
    /\ servePc = "done"
    /\ provider = <<>>
    /\ served = "Ok"
    /\ hsOut = "Ok"

\* C11: the static provider gives its fixed HttpProxyInfo whatever the Context
\* holds, the provider that reads the Context gives the HttpProxyInfo stored
\* there or none; the step of serve that asks the provider leaves every entry
\* of the Context as it was except the proxy address serve itself stores for a
\* present info, and it never ends serve with an error.
C11_ProviderInfo ==
    [][(servePc = "start" /\ servePc' # "start") =>
          /\ info' = (IF IsSome(provider) THEN provider ELSE ctx.HttpProxyInfo)
          /\ HttpProxyOutput(provider, ctx).info = info'
          /\ HttpProxyOutput(provider, ctx).ctx = ctx
          /\ ctx'.HttpProxyInfo = ctx.HttpProxyInfo
          /\ ctx'.RequestContext = ctx.RequestContext
          /\ ctx'.ProxySocketAddr =
                 (IF IsSome(info') THEN <<Unwrap(info').proxy>> ELSE ctx.ProxySocketAddr)
          /\ servePc' = "inner"
          /\ served' = "none"
          /\ error' = <<>>]_vars

\* C11 witness: the static provider was asked with a different HttpProxyInfo
\* in the Context and gave its own.
C11_Witness ==
    /\ servePc = "inner"
    /\ IsSome(provider)
    /\ IsSome(ctx.HttpProxyInfo)
    /\ ctx.HttpProxyInfo # provider
    /\ info = provider

\* The 6-bit value of a character of the base64 alphabet.
Base64Value(c) ==
    IF c >= 65 /\ c <= 90 THEN c - 65
    ELSE IF c >= 97 /\ c <= 122 THEN c - 71
    ELSE IF c >= 48 /\ c <= 57 THEN c + 4
    ELSE IF c = 43 THEN 62 ELSE 63

\* The bytes a padded base64 text stands for.
RECURSIVE Base64Decode(_)
Base64Decode(text) ==
    IF Len(text) < 4 THEN <<>>
    ELSE LET b1 == Base64Value(text[1]) * 4 + Base64Value(text[2]) \div 16
             b2 == (Base64Value(text[2]) % 16) * 16 + Base64Value(text[3]) \div 4
             b3 == (Base64Value(text[3]) % 4) * 64 + Base64Value(text[4])
         IN  (IF text[3] = 61 THEN <<b1>>
              ELSE IF text[4] = 61 THEN <<b1, b2>>
              ELSE <<b1, b2, b3>>)
             \o Base64Decode(SubSeq(text, 5, Len(text)))

\* The CONNECT requests written to the stream of the inner connection.
ConnectRequests ==
    IF IsSome(established_conn) THEN Unwrap(established_conn).conn.stream.written
    ELSE <<>>

\* The values of the Proxy-Authorization headers of a CONNECT request, in order.
ProxyAuthorizationValues(r) ==
    LET hs == SelectSeq(r.headers, LAMBDA h : h.name = "proxy-authorization")
    IN  [k \in 1..Len(hs) |-> hs[k].value]

\* "Basic YWxpY2U6c2VjcmV0"
BasicAliceSecret ==
    <<66, 97, 115, 105, 99, 32, 89, 87, 120, 112, 89, 50, 85, 54, 99, 50, 86, 106, 99,
      109, 86, 48>>

\* "Basic Ym9iOg=="
BasicBobNoPassword == <<66, 97, 115, 105, 99, 32, 89, 109, 57, 105, 79, 103, 61, 61>>

\* C20: a CONNECT request sent for an info with credentials carries exactly
\* one Proxy-Authorization header: for Basic it is "Basic " and the padded
\* base64 text of username ":" password, an absent password being the empty
\* string, so that ("alice", "secret") gives "Basic YWxpY2U6c2VjcmV0"; for
\* Bearer it is "Bearer " and the token; a CONNECT request sent for an info
\* without credentials carries no Proxy-Authorization header.
C20_ProxyAuthorizationHeader ==
    \A k \in 1..Len(ConnectRequests) :
        LET r == ConnectRequests[k]
            values == ProxyAuthorizationValues(r)
            credentials == Unwrap(info).credentials
            c == Unwrap(credentials)
            password == IF IsSome(c.password) THEN Unwrap(c.password) ELSE <<>>
        IN  /\ r.method = "CONNECT"
            /\ IsSome(info)
            /\ ~IsSome(credentials) => values = <<>>
            /\ IsSome(credentials) =>
                  /\ Len(values) = 1
                  /\ c.kind = "Basic" =>
                        /\ SubSeq(values[1], 1, 6) = BasicPrefix
                        /\ Len(values[1]) =
                              6 + 4 * ((Len(c.username) + 1 + Len(password) + 2) \div 3)
                        /\ Base64Decode(SubSeq(values[1], 7, Len(values[1])))
                              = c.username \o <<58>> \o password
                        /\ (c.username = alice /\ password = secret)
                              => values[1] = BasicAliceSecret
                        /\ (c.username = bob /\ password = <<>>)
                              => values[1] = BasicBobNoPassword
                  /\ c.kind = "Bearer" => values[1] = BearerPrefix \o c.token

\* C20 witness: a CONNECT request went out for Basic credentials without a
\* password, and it carries a Proxy-Authorization header.
C20_Witness ==
    /\ Len(ConnectRequests) = 1
    /\ IsSome(Unwrap(info).credentials)
    /\ Unwrap(Unwrap(info).credentials).kind = "Basic"
    /\ ~IsSome(Unwrap(Unwrap(info).credentials).password)
    /\ Len(ProxyAuthorizationValues(ConnectRequests[1])) = 1

\* The TransportContext the connector works with after the inner connect.
TlsTransportContext == Unwrap(tls_ctx.TransportContext)

\* The connection serve returned is the plain inner connection.
ReturnedPlain ==
    /\ tlsServed = "Ok"
    /\ Unwrap(tlsResponse).conn.type = "AutoTlsStream"
    /\ Unwrap(tlsResponse).conn.variant = "Plain"
    /\ Unwrap(tlsResponse).conn.inner = Unwrap(tls_conn).stream

\* The connection serve returned is a secure stream over the inner connection:
\* an SslStream, bare or as the Secure variant of an AutoTlsStream.
ReturnedSecure ==
    /\ tlsServed = "Ok"
    /\ \/ /\ Unwrap(tlsResponse).conn.type = "SslStream"
          /\ Unwrap(tlsResponse).conn.inner = Unwrap(tls_conn).stream
       \/ /\ Unwrap(tlsResponse).conn.type = "AutoTlsStream"
          /\ Unwrap(tlsResponse).conn.variant = "Secure"
          /\ Unwrap(tlsResponse).conn.inner.type = "SslStream"
          /\ Unwrap(tlsResponse).conn.inner.inner = Unwrap(tls_conn).stream

\* tokio_boring::connect succeeded with a session whose protocol version the
\* ProtocolVersion enumeration has.
HandshakeSucceeded ==
    /\ IsSome(boringOut)
    /\ Unwrap(boringOut).result = "Ok"
    /\ IsSome(Unwrap(boringOut).session)
    /\ Unwrap(Unwrap(boringOut).session).protocol_version \in {"TLSv1_2", "TLSv1_3"}

\* C12: the Auto connector, with a connection from the inner connector and a
\* transport context whose application protocol is absent or not secure,
\* returns that connection as the Plain variant, never calls handshake or
\* tokio_boring::connect, and leaves the NegotiatedTlsParameters entry of
\* the Context as it was.
C12_AutoPlainWithoutHandshake ==
    /\ [](( /\ kind.name = "Auto"
            /\ connOut = "Ok"
            /\ IsSome(tls_ctx.TransportContext)
            /\ \/ ~IsSome(TlsTransportContext.app_protocol)
               \/ ~is_secure(Unwrap(TlsTransportContext.app_protocol)) )
          => /\ ~hsCalled
             /\ server_name = <<>>
             /\ boringOut = <<>>
             /\ tlsPc = "done" => ReturnedPlain)
    /\ [][( /\ kind.name = "Auto"
            /\ connOut = "Ok"
            /\ tlsPc = "connected"
            /\ tlsPc' # "connected"
            /\ IsSome(tls_ctx'.TransportContext)
            /\ \/ ~IsSome(Unwrap(tls_ctx'.TransportContext).app_protocol)
               \/ ~is_secure(Unwrap(Unwrap(tls_ctx'.TransportContext).app_protocol)) )
          => /\ tlsPc' = "done"
             /\ tlsServed' = "Ok"
             /\ tls_ctx'.NegotiatedTlsParameters = tls_ctx.NegotiatedTlsParameters
             /\ Unwrap(tlsResponse').ctx = tls_ctx'
             /\ Unwrap(tlsResponse').conn.variant = "Plain"]_vars

\* C12 witness: the Auto connector returned the Plain variant for a request
\* whose transport context has no application protocol.
C12_Witness ==
    /\ tlsPc = "done"
    /\ kind.name = "Auto"
    /\ IsSome(tls_ctx.TransportContext)
    /\ ~IsSome(TlsTransportContext.app_protocol)
    /\ ReturnedPlain
    /\ tls_ctx.NegotiatedTlsParameters = <<>>

\* C13: the Secure connector, with a connection from the inner connector and
\* a transport context, calls handshake whatever the application protocol of
\* that context is; it never returns a Plain stream, and when the handshake
\* does not succeed it returns an error and no connection.
C13_SecureAlwaysHandshakes ==
    (kind.name = "Secure" /\ tlsPc = "done") =>
        /\ (connOut = "Ok" /\ IsSome(tls_ctx.TransportContext)) =>
              /\ hsCalled
              /\ server_host = <<TlsTransportContext.authority_host>>
              /\ IsSome(server_name) => IsSome(boringOut)
        /\ tlsServed = "Ok" => (ReturnedSecure /\ HandshakeSucceeded)
        /\ ~HandshakeSucceeded => (tlsServed = "Err" /\ tlsResponse = <<>>)
        /\ ~ReturnedPlain

\* C13 witness: the Secure connector attempted the handshake for a protocol
\* that is not secure, the handshake failed and serve returned an error.
C13_Witness ==
    /\ tlsPc = "done"
    /\ kind.name = "Secure"
    /\ IsSome(tls_ctx.TransportContext)
    /\ TlsTransportContext.app_protocol = <<"http">>
    /\ IsSome(boringOut)
    /\ Unwrap(boringOut).result = "Err"
    /\ tlsServed = "Err"

\* C14: the Tunnel connector, with a connection from the inner connector:
\* without a TlsTunnel in the Context and without a configured host it
\* returns the Plain variant and calls no handshake; with only a configured
\* host it calls handshake for that host; with a TlsTunnel in the Context it
\* calls handshake for the server host of the TlsTunnel, also when another
\* host is configured; whenever it calls handshake, it returns the Secure
\* variant for a handshake that succeeds and never the Plain variant.
C14_TunnelHost ==
    (kind.name = "Tunnel" /\ tlsPc = "done" /\ connOut = "Ok") =>
        /\ (~IsSome(tls_ctx.TlsTunnel) /\ ~IsSome(kind.host)) =>
              (ReturnedPlain /\ ~hsCalled /\ boringOut = <<>>)
        /\ (~IsSome(tls_ctx.TlsTunnel) /\ IsSome(kind.host)) =>
              /\ hsCalled
              /\ server_host = kind.host
              /\ ~ReturnedPlain
              /\ HandshakeSucceeded <=> ReturnedSecure
        /\ IsSome(tls_ctx.TlsTunnel) =>
              /\ hsCalled
              /\ server_host = <<Unwrap(tls_ctx.TlsTunnel).server_host>>
              /\ ~ReturnedPlain
              /\ HandshakeSucceeded <=> ReturnedSecure

\* C14 witness: a TlsTunnel in the Context and another host configured, and the
\* Tunnel connector returned the Secure variant after a handshake for the
\* host of the TlsTunnel.
C14_Witness ==
    /\ tlsPc = "done"
    /\ kind = [name |-> "Tunnel", host |-> <<"configured.example">>]
    /\ IsSome(tls_ctx.TlsTunnel)
    /\ server_host = <<"tunnel.example">>
    /\ ReturnedSecure

\* The NegotiatedTlsParameters of the handshake that returned.
HandshakeParameters ==
    [protocol_version |-> Unwrap(Unwrap(boringOut).session).protocol_version,
     application_layer_protocol |-> Unwrap(boringOut).alpn]

\* C15: for every kind of connector, serve stores NegotiatedTlsParameters
\* (the negotiated version and the ALPN, if any) in the Context, and returns a
\* secure stream, exactly when tokio_boring::connect succeeded with a session
\* whose protocol version the enumeration has; a failed handshake, a missing
\* session and a version without a mapping each make serve return an error
\* and no stream, never a Plain one.
C15_ParametersIffHandshakeSucceeded ==
    /\ [](tlsPc = "done" =>
            /\ HandshakeSucceeded <=> ReturnedSecure
            /\ HandshakeSucceeded =>
                  /\ tls_ctx.NegotiatedTlsParameters = <<HandshakeParameters>>
                  /\ Unwrap(tlsResponse).ctx = tls_ctx
            /\ ~HandshakeSucceeded =>
                  tls_ctx.NegotiatedTlsParameters \in {<<>>, <<EarlierTlsParameters>>}
            /\ (IsSome(boringOut) /\ ~HandshakeSucceeded) =>
                  (tlsServed = "Err" /\ tlsResponse = <<>> /\ tlsError # <<>>)
            /\ (hsCalled /\ ~HandshakeSucceeded) => ~ReturnedPlain)
    /\ [][tls_ctx'.NegotiatedTlsParameters # tls_ctx.NegotiatedTlsParameters =>
            /\ tlsPc = "handshake_returned"
            /\ HandshakeSucceeded
            /\ tlsServed' = "Ok"]_vars

\* C15 witness: the Tunnel connector returned the Secure variant with the
\* negotiated version and ALPN in the Context, in place of earlier ones.
C15_Witness ==
    /\ tlsPc = "done"
    /\ kind.name = "Tunnel"
    /\ ReturnedSecure
    /\ tls_ctx.NegotiatedTlsParameters =
          <<[protocol_version |-> "TLSv1_3", application_layer_protocol |-> <<"h2">>]>>

\* C16: handshake takes the TlsConnectorData of the Context if there is one,
\* else the one of the connector if it has one, else new_http_auto(): the
\* data of the connector is used only without one in the Context, the
\* default only without both.
C16_ConfigPrecedence ==
    hsCalled =>
        /\ IsSome(tls_ctx.TlsConnectorData) => hsData = "ctx"
        /\ (~IsSome(tls_ctx.TlsConnectorData) /\ IsSome(self_connector_data)) =>
              hsData = "connector"
        /\ (~IsSome(tls_ctx.TlsConnectorData) /\ ~IsSome(self_connector_data)) =>
              hsData = "default"
        /\ hsData \in {"ctx", "connector", "default"}

\* C16 witness: the Context and the connector both have TlsConnectorData, and
\* the handshake went on with the one of the Context.
C16_Witness ==
    /\ IsSome(tls_ctx.TlsConnectorData)
    /\ IsSome(self_connector_data)
    /\ IsSome(server_name)
    /\ hsData = "ctx"

\* The TlsConnectorData handshake resolved.
ResolvedData ==
    IF hsData = "ctx" THEN tls_ctx.TlsConnectorData
    ELSE IF hsData = "connector" THEN self_connector_data
    ELSE new_http_auto

\* The host serve resolves for the handshake.
ResolvedHost ==
    IF kind.name = "Tunnel"
    THEN IF IsSome(tls_ctx.TlsTunnel) THEN Unwrap(tls_ctx.TlsTunnel).server_host
         ELSE Unwrap(kind.host)
    ELSE TlsTransportContext.authority_host

\* C17: the server name handed to tokio_boring::connect is the server_name of
\* the resolved configuration if it has one, else the resolved host: the
\* authority host of the transport context for Auto and Secure, the host of
\* the TlsTunnel or else the configured host for Tunnel; a configured name
\* also replaces the host of a TlsTunnel.
C17_ServerName ==
    IsSome(server_name) =>
        /\ IsSome(ResolvedData)
        /\ server_name =
              (IF IsSome(Unwrap(ResolvedData).server_name)
               THEN Unwrap(ResolvedData).server_name
               ELSE <<ResolvedHost>>)

\* C17 witness: the handshake for a TlsTunnel of the Context presented the
\* server name of the configuration.
C17_Witness ==
    /\ kind.name = "Tunnel"
    /\ IsSome(tls_ctx.TlsTunnel)
    /\ IsSome(boringOut)
    /\ server_host = <<"tunnel.example">>
    /\ server_name = <<"sni.example">>

\* The four failures, told from what happened.
TransportContextFailed ==
    kind.name # "Tunnel" /\ connOut = "Ok" /\ ~IsSome(tls_ctx.TransportContext)
ConfigBuildFailed == hsCalled /\ ~IsSome(server_name)
HandshakeFailed == IsSome(boringOut) /\ Unwrap(boringOut).result = "Err"
SessionMissing ==
    /\ IsSome(boringOut)
    /\ Unwrap(boringOut).result = "Ok"
    /\ ~IsSome(Unwrap(boringOut).session)

\* The errors of the four failures, told from the error serve returns.
TransportContextErrors ==
    {e \in {tlsError} : e # <<>> /\ e[1] = "TlsConnector(auto): compute transport context"}
ConfigBuildErrors == {e \in {tlsError} : e = <<"tls config">>}
HandshakeErrors == {e \in {tlsError} : e # <<>> /\ e[1] = "boring ssl connector: connect"}
SessionErrors ==
    {e \in {tlsError} : e = <<"boring ssl connector: failed to establish session...">>}

\* C18: a failure to compute the transport context, to build the TLS
\* configuration, of the handshake, and to find a session each make serve
\* return an error, and the error tells which of the four happened: a
\* missing session is never reported as a handshake or transport error.
C18_DistinctErrors ==
    tlsPc = "done" =>
        /\ (TransportContextFailed \/ ConfigBuildFailed \/ HandshakeFailed \/ SessionMissing)
              => tlsServed = "Err"
        /\ TransportContextFailed <=> tlsError \in TransportContextErrors
        /\ ConfigBuildFailed <=> tlsError \in ConfigBuildErrors
        /\ HandshakeFailed <=> tlsError \in HandshakeErrors
        /\ SessionMissing <=> tlsError \in SessionErrors
        /\ Cardinality({b \in {TransportContextFailed, ConfigBuildFailed,
                               HandshakeFailed, SessionMissing} : b}) <= 1
        /\ ~(TransportContextFailed /\ ConfigBuildFailed)
        /\ ~(ConfigBuildFailed /\ HandshakeFailed)
        /\ ~(HandshakeFailed /\ SessionMissing)

\* C18 witness: the handshake completed without a session and serve returned
\* the error of a missing session.
C18_Witness ==
    /\ tlsPc = "done"
    /\ SessionMissing
    /\ tlsServed = "Err"
    /\ tlsError = <<"boring ssl connector: failed to establish session...">>

\* C19: an AutoTlsStream has one backing stream, Secure or Plain: no read,
\* write, flush or shutdown changes the variant it was constructed with, and
\* every operation called on it reaches the inner stream of that variant, in
\* order, and never the other kind of stream.
C19_VariantFixed ==
    /\ [](IsSome(autoStream) =>
            /\ Unwrap(autoStream).variant \in {"Secure", "Plain"}
            /\ Unwrap(autoStream).variant = "Secure" =>
                  (secureOps = calls /\ plainOps = <<>>)
            /\ Unwrap(autoStream).variant = "Plain" =>
                  (plainOps = calls /\ secureOps = <<>>))
    /\ [][autoStream' = autoStream]_vars

\* C19 witness: a read, a write, a flush and a shutdown were called on a
\* Secure AutoTlsStream.
C19_Witness ==
    /\ IsSome(autoStream)
    /\ Unwrap(autoStream).variant = "Secure"
    /\ calls = <<"read", "write", "flush", "shutdown">>

\* C21: serve stores the address of the proxy as ProxySocketAddr in the
\* Context exactly when the provider gave an info, in its first step, before
\* the inner connector is called: the inner connector is called with it, and
\* the connection it hands back and the one serve returns carry it.
C21_ProxySocketAddrBeforeInner ==
    /\ [](( servePc \notin {"off", "start"} /\ IsSome(info) ) =>
            /\ ctx.ProxySocketAddr = <<Unwrap(info).proxy>>
            /\ IsSome(established_conn) =>
                  Unwrap(established_conn).ctx.ProxySocketAddr = <<Unwrap(info).proxy>>
            /\ served = "Ok" =>
                  Unwrap(response).ctx.ProxySocketAddr = <<Unwrap(info).proxy>>)
    /\ [][ctx'.ProxySocketAddr # ctx.ProxySocketAddr =>
            /\ servePc = "start"
            /\ innerOut' = "none"
            /\ IsSome(info')
            /\ ctx'.ProxySocketAddr = <<Unwrap(info').proxy>>]_vars

\* C21 witness: the inner connector is about to be called, and the Context
\* has the address of the resolved proxy.
C21_Witness ==
    /\ servePc = "inner"
    /\ innerOut = "none"
    /\ IsSome(info)
    /\ Unwrap(info).proxy = "10.0.0.1:8080"
    /\ ctx.ProxySocketAddr = <<"10.0.0.1:8080">>

\* C22: when the inner connector fails, serve returns its error with the
\* note "establish inner stream" added, looks for no authority (the
\* RequestContext entry of the Context stays as it was), builds no connector
\* and sends no CONNECT request.
C22_InnerErrorWrapped ==
    /\ []((servePc = "done" /\ innerOut = "Err") =>
            /\ served = "Err"
            /\ error = <<"establish inner stream", "inner">>
            /\ response = <<>>
            /\ connector = <<>>
            /\ hsOut = "none"
            /\ ConnectRequests = <<>>)
    /\ [][innerOut' = "Err" => ctx' = ctx]_vars

\* C22 witness: serve returned the error of the inner connector for a
\* resolved proxy info.
C22_Witness ==
    /\ servePc = "done"
    /\ innerOut = "Err"
    /\ IsSome(info)
    /\ served = "Err"

\* The connection of the inner connector gives no target authority: its
\* Context has a RequestContext without one, or has none and the request has
\* no authority.
NoAuthority ==
    IF IsSome(Unwrap(established_conn).ctx.RequestContext)
    THEN ~IsSome(Unwrap(Unwrap(established_conn).ctx.RequestContext).authority)
    ELSE ~IsSome(Unwrap(established_conn).req.authority)

\* C23: with a proxy info and a connection of the inner connector that gives
\* no target authority, serve fails with "missing http authority" in its next
\* step; no connector is built and no CONNECT request is sent.
C23_MissingAuthority ==
    /\ [][( /\ servePc = "inner_returned"
            /\ servePc' # "inner_returned"
            /\ innerOut = "Ok"
            /\ IsSome(info)
            /\ NoAuthority )
          => /\ servePc' = "done"
             /\ served' = "Err"
             /\ error' = <<"missing http authority">>
             /\ response' = <<>>
             /\ connector' = <<>>
             /\ hsOut' = "none"]_vars
    /\ [](error = <<"missing http authority">> =>
            (hsOut = "none" /\ ConnectRequests = <<>> /\ servePc = "done"))

\* C23 witness: serve failed with the missing authority for a request without
\* authority and a Context without RequestContext.
C23_Witness ==
    /\ servePc = "done"
    /\ req.authority = <<>>
    /\ IsSome(info)
    /\ innerOut = "Ok"
    /\ error = <<"missing http authority">>

\* The info has a Bearer credential whose token makes no legal header value.
IllegalBearer ==
    /\ IsSome(info)
    /\ IsSome(Unwrap(info).credentials)
    /\ Unwrap(Unwrap(info).credentials).kind = "Bearer"
    /\ \E k \in 1..Len(Unwrap(Unwrap(info).credentials).token) :
          Unwrap(Unwrap(info).credentials).token[k] = 10

\* C24: with a Bearer credential whose token is no legal header value, serve
\* fails in the step that builds the connector, with the note "define http
\* proxy bearer token" when the authority is known: the handshake never starts
\* and nothing is written to the stream.
C24_IllegalBearerToken ==
    /\ [][( /\ servePc = "inner_returned"
            /\ servePc' # "inner_returned"
            /\ innerOut = "Ok"
            /\ IllegalBearer )
          => /\ servePc' = "done"
             /\ served' = "Err"
             /\ connector' = <<>>
             /\ hsOut' = "none"
             /\ ~NoAuthority =>
                   error' = <<"define http proxy bearer token", "invalid bearer token">>]_vars
    /\ [](IllegalBearer => (hsOut = "none" /\ ConnectRequests = <<>> /\ served # "Ok"))

\* C24 witness: serve failed on the bearer token with the authority known.
C24_Witness ==
    /\ servePc = "done"
    /\ IllegalBearer
    /\ IsSome(ctx.RequestContext)
    /\ IsSome(Unwrap(ctx.RequestContext).authority)
    /\ error = <<"define http proxy bearer token", "invalid bearer token">>
    /\ ConnectRequests = <<>>

\* C25 as stated: the only entry of the Context serve changes is the proxy
\* address: the Context of the connection serve returns has every other entry
\* as the inner connector handed it back.
C25_Original ==
    served = "Ok" =>
        /\ Unwrap(response).ctx.HttpProxyInfo = Unwrap(established_conn).ctx.HttpProxyInfo
        /\ Unwrap(response).ctx.RequestContext = Unwrap(established_conn).ctx.RequestContext

\* C25 amended: serve changes two entries of the Context and no other: before
\* the inner connector is called it stores the proxy address of a resolved
\* info, and after the inner connector handed back the Context, with an info
\* resolved, it stores the RequestContext computed from the request if the
\* Context has none; a RequestContext that is there is left as it is.
C25_ContextMutations ==
    /\ [](( IsSome(established_conn)
            /\ servePc \in {"handshake", "handshake_returned", "done"} ) =>
            /\ ctx.HttpProxyInfo = Unwrap(established_conn).ctx.HttpProxyInfo
            /\ ctx.ProxySocketAddr = Unwrap(established_conn).ctx.ProxySocketAddr
            /\ ctx.RequestContext =
                  (IF IsSome(info) /\ ~IsSome(Unwrap(established_conn).ctx.RequestContext)
                   THEN <<[authority |-> Unwrap(established_conn).req.authority]>>
                   ELSE Unwrap(established_conn).ctx.RequestContext)
            /\ served = "Ok" => Unwrap(response).ctx = ctx)
    /\ [][servePc = "start" =>
            /\ ctx'.HttpProxyInfo = ctx.HttpProxyInfo
            /\ ctx'.RequestContext = ctx.RequestContext]_vars

\* C25 witness: the inner connector handed back a Context without
\* RequestContext, and serve returned one with the RequestContext of the
\* request after the handshake.
C25_Witness ==
    /\ servePc = "done"
    /\ served = "Ok"
    /\ hsOut = "Ok"
    /\ ~IsSome(Unwrap(established_conn).ctx.RequestContext)
    /\ Unwrap(response).ctx.RequestContext = <<[authority |-> req.authority]>>

\* C26: an error of the inner connector leaves the wrapping stage with the
\* context note of that stage added: the TlsConnector returns it with a note
\* of its own in front, as the HttpProxyConnectorService does.
C26_InnerErrorAnnotated ==
    (tlsPc = "done" /\ connOut = "Err") =>
        /\ tlsServed = "Err"
        /\ Len(tlsError) = 2
        /\ tlsError[2] = "inner connect"

C30_SenderCount ==
    /\ [](senders = Cardinality(LiveGraceful) + (IF svcTx THEN 1 ELSE 0))
    /\ []((~svcTx /\ LiveGraceful = {}) => ChannelClosed)
    /\ [](ret \in {"unit", "Ok"} => (senders = 0 /\ ~svcTx /\ LiveGraceful = {}))
    /\ [][(svcPc' = "returned" /\ svcPc # "returned" /\ ret' # "Err") =>
            senders = 0]_vars
    /\ [][(LiveGraceful' = LiveGraceful /\ svcTx' = svcTx) => senders' = senders]_vars

\* C30 witness: shutdown() resolved while a pending Token is still held, after
\* Tokens of the service had been issued and dropped.
C30_Witness ==
    /\ ret = "unit"
    /\ \E i \in LiveTokens : tokState[i] = "None"
    /\ \E i \in Tokens : tokSt[i] = "dropped"

\* The value of type T of the last insert of that type among the inserts made,
\* None if there was none.
RECURSIVE LastInserted(_, _)
LastInserted(log, T) ==
    IF log = <<>> THEN <<>>
    ELSE IF log[Len(log)][1] = T THEN <<log[Len(log)][2]>>
    ELSE LastInserted(SubSeq(log, 1, Len(log) - 1), T)

\* C27: a Context holds at most one value per type; after any sequence of
\* inserts get::<T>() is the value of the last insert of type T (None if there
\* was none), and an insert of type T leaves what get returns for every other
\* type as it was.
C27_OneValuePerType ==
    /\ [](\A T \in TypeIds : Cardinality({e \in extensions : e[1] = T}) <= 1)
    /\ [](\A T \in TypeIds : Context_get(extensions, T) = LastInserted(inserted, T))
    /\ [][\A T \in TypeIds :
            (Len(inserted') = Len(inserted) + 1 /\ inserted'[Len(inserted')][1] # T)
                => Context_get(extensions', T) = Context_get(extensions, T)]_vars

\* C27 witness: a value of a type was inserted, another of the same type after
\* it, with a value of another type in the Context; get returns the later one.
C27_Witness ==
    /\ Len(inserted) = 3
    /\ inserted[1] = <<"RequestContext", "v1">>
    /\ inserted[2] = <<"ProxySocketAddr", "v1">>
    /\ inserted[3] = <<"RequestContext", "v2">>
    /\ Context_get(extensions, "RequestContext") = <<"v2">>
    /\ Context_get(extensions, "ProxySocketAddr") = <<"v1">>

\* The host the Host header of the request gives, None without a header or
\* with one that is no authority.
HeaderHost ==
    IF IsSome(host_parts.host_header)
       /\ IsSome(ParseHostHeader(Unwrap(host_parts.host_header)))
    THEN <<Unwrap(ParseHostHeader(Unwrap(host_parts.host_header))).host>>
    ELSE <<>>

C31_OkOnlyWhenDrained ==
    /\ [](ret = "Ok" => (LiveGraceful = {} /\ ServiceTokens = {} /\ senders = 0))
    /\ [][(svcPc = "shutdown_until_recv" /\ svcPc' = "returned" /\ ret' = "Ok") =>
            (LiveGraceful = {} /\ senders = 0)]_vars
    /\ [][(svcPc = "shutdown_until_recv" /\ ChannelClosed) =>
            (ChannelClosed' /\ ret' \in {"none", "Ok"})]_vars
    /\ [][(svcPc = "shutdown_until_recv" /\ ChannelClosed /\ svcPc' = "returned") =>
            ret' = "Ok"]_vars

\* C31 witness: shutdown_until(0) resolved with Ok(()) after a Token of the
\* service had been issued and dropped, with the deadline passed at once.
C31_Witness ==
    /\ ret = "Ok"
    /\ duration = 0
    /\ \E i \in Tokens : tokSt[i] = "dropped"
    /\ sinceCancel >= 1

\* How far a serve call of the proxy connector has come.
ProxyRank(pc) ==
    CASE pc = "off" -> 0
      [] pc = "start" -> 1
      [] pc = "inner" -> 2
      [] pc = "inner_returned" -> 3
      [] pc = "handshake" -> 4
      [] pc = "handshake_returned" -> 5
      [] pc = "done" -> 6

\* How far a serve call of a TLS connector has come.
TlsRank(pc) ==
    CASE pc = "off" -> 0
      [] pc = "start" -> 1
      [] pc = "connected" -> 2
      [] pc = "handshake" -> 3
      [] pc = "handshake_returned" -> 4
      [] pc = "done" -> 5

\* The CONNECT requests the proxy connector has written on the stream.
ConnectsWritten ==
    IF IsSome(established_conn) THEN Unwrap(established_conn).conn.stream.written
    ELSE <<>>

\* C32: no stage retries. A serve call only moves forward, so the call of the
\* inner connector and the handshake are each passed at most once and their
\* outcome, once there, is never replaced; a serve that has returned has called
\* its inner connector; at most one CONNECT request is ever written; a failed
\* handshake (CONNECT or TLS) makes serve return an error.
C32_NoRetry ==
    /\ [][ProxyRank(servePc') >= ProxyRank(servePc)
          /\ (servePc' # servePc => ProxyRank(servePc') > ProxyRank(servePc))]_vars
    /\ [][TlsRank(tlsPc') >= TlsRank(tlsPc)
          /\ (tlsPc' # tlsPc => TlsRank(tlsPc') > TlsRank(tlsPc))]_vars
    /\ [][(innerOut # "none" => innerOut' = innerOut)
          /\ (hsOut # "none" => hsOut' = hsOut)
          /\ (connOut # "none" => connOut' = connOut)
          /\ (hsCalled => hsCalled')
          /\ (boringOut # <<>> => boringOut' = boringOut)]_vars
    /\ [](Len(ConnectsWritten) <= 1)
    /\ [](servePc = "done" => innerOut # "none")
    /\ [](tlsPc = "done" => connOut # "none")
    /\ []((servePc = "done" /\ hsOut = "Err") =>
            (served = "Err" /\ Len(ConnectsWritten) = 1))
    /\ []((tlsPc = "done" /\ boringOut # <<>> /\ Unwrap(boringOut).result = "Err") =>
            tlsServed = "Err")

\* C32 witness: the CONNECT handshake failed and serve returned the error,
\* with one CONNECT request written.
C32_Witness ==
    /\ servePc = "done"
    /\ hsOut = "Err"
    /\ served = "Err"
    /\ Len(ConnectsWritten) = 1

\* The entries of the Context of a TLS connector other than the negotiated
\* parameters.
OtherTlsEntries == (DOMAIN tls_ctx) \ {"NegotiatedTlsParameters"}

\* C33 as stated: on success the request and the peer address are those the
\* inner connector handed back; the proxy connector replaces the stream only;
\* a TLS connector, for a Plain and for a Secure outcome, replaces the stream,
\* adds NegotiatedTlsParameters to the Context and changes nothing else.
C33_Original ==
    /\ [](served = "Ok" =>
            /\ Unwrap(response).req = Unwrap(established_conn).req
            /\ Unwrap(response).conn.addr = Unwrap(established_conn).conn.addr)
    /\ [](tlsServed = "Ok" =>
            /\ Unwrap(tlsResponse).req = tls_req
            /\ Unwrap(tlsResponse).addr = Unwrap(tls_conn).addr)
    /\ [][tlsPc # "off" => \A f \in OtherTlsEntries : tls_ctx'[f] = tls_ctx[f]]_vars
    /\ [][(tlsServed # "Ok" /\ tlsServed' = "Ok") =>
            /\ IsSome(Unwrap(tlsResponse').ctx.NegotiatedTlsParameters)
            /\ Unwrap(tlsResponse').ctx.NegotiatedTlsParameters
                  # <<EarlierTlsParameters>>]_vars

\* C33 amended: on success the request and the peer address are those the
\* inner connector handed back. The proxy connector hands the connection on
\* as it is without a proxy and with the stream of the handshake, over the
\* same inner stream, with one. A TLS connector returns a stream over the
\* inner one and changes two entries of the Context at most: the Auto and the
\* Secure connector store the TransportContext they computed when there was
\* none, none is ever replaced; NegotiatedTlsParameters are stored with a
\* Secure outcome only, a Plain outcome leaves that entry as it was.
C33_FrameEffect ==
    /\ [](served = "Ok" =>
            /\ Unwrap(response).req = Unwrap(established_conn).req
            /\ Unwrap(response).req = req
            /\ Unwrap(response).conn.addr = Unwrap(established_conn).conn.addr
            /\ ~IsSome(info) => response = established_conn
            /\ IsSome(info) =>
                  Unwrap(response).conn.stream = Unwrap(established_conn).conn.stream)
    /\ [](tlsServed = "Ok" =>
            /\ Unwrap(tlsResponse).req = tls_req
            /\ Unwrap(tlsResponse).addr = Unwrap(tls_conn).addr
            /\ Unwrap(tlsResponse).ctx = tls_ctx
            /\ ReturnedPlain \/ ReturnedSecure)
    /\ [][tlsPc # "off" =>
            /\ tls_req' = tls_req
            /\ (tls_conn # <<>> => tls_conn' = tls_conn)
            /\ tls_ctx'.TlsConnectorData = tls_ctx.TlsConnectorData
            /\ tls_ctx'.TlsTunnel = tls_ctx.TlsTunnel
            /\ (tls_ctx'.TransportContext # tls_ctx.TransportContext =>
                  /\ kind.name \in {"Auto", "Secure"}
                  /\ tlsPc = "connected"
                  /\ tls_ctx.TransportContext = <<>>
                  /\ tls_ctx'.TransportContext = tls_req.transport_ctx)
            /\ (tls_ctx'.NegotiatedTlsParameters # tls_ctx.NegotiatedTlsParameters =>
                  (tlsServed' = "Ok" /\ ReturnedSecure'))
            /\ ((tlsServed # "Ok" /\ ReturnedPlain') =>
                  tls_ctx'.NegotiatedTlsParameters = tls_ctx.NegotiatedTlsParameters)]_vars

\* C33 witness: the Auto connector computed and stored the TransportContext,
\* returned the Plain stream with the request and the address of the inner
\* connector, and the Context has no NegotiatedTlsParameters.
C33_Witness ==
    /\ tlsPc = "done"
    /\ kind.name = "Auto"
    /\ ReturnedPlain
    /\ Unwrap(tlsResponse).req = tls_req
    /\ Unwrap(tlsResponse).addr = Unwrap(tls_conn).addr
    /\ Unwrap(tlsResponse).ctx.TransportContext = tls_req.transport_ctx
    /\ Unwrap(tlsResponse).ctx.NegotiatedTlsParameters = <<>>

\* The TransportContext the Context holds after the lookup of the Auto and the
\* Secure connector: the one it had, else the one computed from the request.
ExpectedTransportContext ==
    IF IsSome(tls_ctx.TransportContext) THEN tls_ctx.TransportContext
    ELSE tls_req.transport_ctx

\* C34: the Auto and the Secure connector, with a connection from the inner
\* connector, use the TransportContext of the Context when there is one, and
\* leave it as it is whatever the request would give; without one they take
\* the one computed from the request and store it in the Context. The
\* decision (a handshake for Secure, for Auto only with a secure protocol) and
\* the host of the handshake are those of that TransportContext. When there is
\* none and the computation fails, serve returns the error of the computation
\* and no handshake is attempted.
C34_TransportContextCached ==
    /\ [][( /\ tlsPc = "connected"
            /\ kind.name \in {"Auto", "Secure"}
            /\ connOut = "Ok" ) =>
            IF IsSome(ExpectedTransportContext)
            THEN /\ tls_ctx'.TransportContext = ExpectedTransportContext
                 /\ hsCalled' <=>
                       \/ kind.name = "Secure"
                       \/ Unwrap(ExpectedTransportContext).app_protocol = <<"https">>
                 /\ hsCalled' =>
                       server_host' = <<Unwrap(ExpectedTransportContext).authority_host>>
                 /\ ~hsCalled' => ReturnedPlain'
            ELSE /\ tlsServed' = "Err"
                 /\ tlsError'[1] = "TlsConnector(auto): compute transport context"
                 /\ ~hsCalled'
                 /\ tlsPc' = "done"
                 /\ tls_ctx' = tls_ctx]_vars
    /\ [][(tlsPc # "off" /\ IsSome(tls_ctx.TransportContext)) =>
            tls_ctx'.TransportContext = tls_ctx.TransportContext]_vars
    /\ []((tlsPc = "done" /\ TransportContextFailed) =>
            (~hsCalled /\ boringOut = <<>> /\ tlsServed = "Err"))

\* C34 witness: the Context had a TransportContext for a secure protocol and
\* the request stood for another host and a protocol that is not secure; the
\* Auto connector attempted the handshake for the host of the Context.
C34_Witness ==
    /\ kind.name = "Auto"
    /\ tls_ctx.TransportContext =
          <<[authority_host |-> "cached.example", app_protocol |-> <<"https">>]>>
    /\ tls_req.transport_ctx =
          <<[authority_host |-> "req.example", app_protocol |-> <<"http">>]>>
    /\ hsCalled
    /\ server_host = <<"cached.example">>
    /\ IsSome(boringOut)

====
